---- MODULE Spec2Model ----
(***************************************************************************)
(* A model of the GitHub Pages troubleshooting system:                     *)
(*   models.py            result / session value types                     *)
(*   base.py              DiagnosticComponent.execute and friends          *)
(*   orchestrator.py      DiagnosticOrchestrator                           *)
(*   diagnostic/workflow_inspector.py   WorkflowInspector (the rule engine)*)
(*                                                                         *)
(* Python values that come out of yaml.safe_load are modelled as records   *)
(* with a kind field k ("absent" = key not in the mapping, "null", "int",  *)
(* "str", "list", "map") so that every place where the code applies a      *)
(* mapping / sequence / string operation to a value of another kind can    *)
(* raise the exception Python raises there.                                *)
(***************************************************************************)
EXTENDS Integers, Sequences, FiniteSets, TLC

\* ------------------------------------------------------------ models.py
PASS == "pass"
FAIL == "fail"
WARNING == "warning"

LOW == "low"
MEDIUM == "medium"
HIGH == "high"
CRITICAL == "critical"

TestStatus == {PASS, FAIL, WARNING, "running", "completed", "failed"}
Severity == {LOW, MEDIUM, HIGH, CRITICAL}

\* DiagnosticResult: the timestamp is left out (nothing reads it), test_name is
\* the triple <<check, file, job>> the f-strings are built from, details holds
\* the metadata lists as triples of strings.
DiagnosticResult(test_name, status, severity, details) ==
    [test_name |-> test_name, status |-> status, severity |-> severity,
     details |-> details]

\* base.py _create_result: builds the result (and logs it).
create_result(test_name, status, severity, details) ==
    DiagnosticResult(test_name, status, severity, details)

\* What a call produces: a list of results, or an exception that leaves it.
Returned(rs) == [raised |-> FALSE, exc |-> "", results |-> rs]
Raised(e) == [raised |-> TRUE, exc |-> e, results |-> <<>>]

\* ------------------------------------------------- workflow_inspector.py tables
PermKeys == {"contents", "pages", "id-token", "actions"}

REQUIRED_PERMISSIONS ==
    ("contents" :> "read") @@ ("pages" :> "write") @@ ("id-token" :> "write")

\* dict iteration order of REQUIRED_PERMISSIONS
RequiredOrder == <<"contents", "pages", "id-token">>

EXPECTED_TRIGGERS == <<"push", "workflow_dispatch">>

\* dict iteration order of PAGES_ACTIONS
PagesActionOrder ==
    <<"actions/checkout", "actions/configure-pages",
      "actions/upload-pages-artifact", "actions/deploy-pages">>

\* A version tag is the sequence of its characters.
PAGES_ACTIONS ==
    ("actions/checkout" :> [min_version |-> <<"v", "3">>, current |-> <<"v", "4">>])
    @@ ("actions/configure-pages" :> [min_version |-> <<"v", "3">>, current |-> <<"v", "4">>])
    @@ ("actions/upload-pages-artifact" :> [min_version |-> <<"v", "2">>, current |-> <<"v", "3">>])
    @@ ("actions/deploy-pages" :> [min_version |-> <<"v", "2">>, current |-> <<"v", "4">>])

\* ------------------------------------------------------- Python string helpers
\* ord() of the characters version tags are written with.
Ord(c) ==
    CASE c = "0" -> 48 [] c = "1" -> 49 [] c = "2" -> 50 [] c = "3" -> 51
      [] c = "4" -> 52 [] c = "5" -> 53 [] c = "6" -> 54 [] c = "7" -> 55
      [] c = "8" -> 56 [] c = "9" -> 57 [] c = "." -> 46
      [] c = "V" -> 86 [] c = "m" -> 109 [] c = "v" -> 118

\* str.__lt__: character by character, a proper prefix is smaller.
RECURSIVE StrLess(_, _)
StrLess(a, b) ==
    IF b = <<>> THEN FALSE
    ELSE IF a = <<>> THEN TRUE
    ELSE IF Ord(Head(a)) # Ord(Head(b)) THEN Ord(Head(a)) < Ord(Head(b))
    ELSE StrLess(Tail(a), Tail(b))

\* uses.startswith(action) for the action identities of the model: an identity
\* starts with itself and with the identities listed as its proper prefixes.
StartsWith(a, key) ==
    \/ a = key
    \/ <<a, key>> \in {<<"actions/deploy-pages-beta", "actions/deploy-pages">>}

\* fragment in uses (substring), for the identities of the model.
Contains(a, frag) ==
    <<a, frag>> \in
        {<<"actions/configure-pages", "configure-pages">>,
         <<"actions/upload-pages-artifact", "upload-pages-artifact">>,
         <<"actions/deploy-pages", "deploy-pages">>,
         <<"actions/deploy-pages-beta", "deploy-pages">>,
         <<"myorg/deploy-pages", "deploy-pages">>}

\* 'pages' in job_name.lower() or 'deploy' in job_name.lower(), for the job
\* names of the model.
NameSuggestsPages(job_name) ==
    job_name \in {"deploy", "Deploy", "github-pages", "build-and-deploy"}

\* branch in push_branches when push_branches is the string s (substring test).
BranchInString(branch, s) ==
    <<branch, s>> \in {<<"main", "main">>, <<"main", "maintenance">>,
                       <<"prod", "prod">>, <<"master", "master">>}

\* ----------------------------------------------------- YAML value constructors
NoPerm == [p \in PermKeys |-> "absent"]
PermAbsent == [k |-> "absent", m |-> NoPerm]
PermNull == [k |-> "null", m |-> NoPerm]
PermStr == [k |-> "str", m |-> NoPerm]
PermList == [k |-> "list", m |-> NoPerm]
PermMap(m) == [k |-> "map", m |-> m @@ NoPerm]

UsesAbsent == [k |-> "absent", a |-> "", at |-> FALSE, ver |-> <<>>]
UsesNull == [k |-> "null", a |-> "", at |-> FALSE, ver |-> <<>>]
UsesInt == [k |-> "int", a |-> "", at |-> FALSE, ver |-> <<>>]
Uses(a, ver) == [k |-> "str", a |-> a, at |-> TRUE, ver |-> ver]
UsesNoAt(a) == [k |-> "str", a |-> a, at |-> FALSE, ver |-> <<>>]

Step(uses) == [k |-> "map", uses |-> uses]
StepNull == [k |-> "null", uses |-> UsesAbsent]
StepStr == [k |-> "str", uses |-> UsesAbsent]

StepsAbsent == [k |-> "absent", v |-> <<>>]
StepsNull == [k |-> "null", v |-> <<>>]
StepsStr == [k |-> "str", v |-> <<>>]
StepsList(v) == [k |-> "list", v |-> v]

Job(perms, steps) == [k |-> "map", perms |-> perms, steps |-> steps]
JobNull == [k |-> "null", perms |-> PermAbsent, steps |-> StepsAbsent]

JobsAbsent == [k |-> "absent", v |-> <<>>]
JobsNull == [k |-> "null", v |-> <<>>]
JobsInt == [k |-> "int", v |-> <<>>]
JobsStr == [k |-> "str", v |-> <<>>]
JobsList == [k |-> "list", v |-> <<>>]
JobsMap(v) == [k |-> "map", v |-> v]
NamedJob(name, cfg) == [name |-> name, cfg |-> cfg]

BranchesAbsent == [k |-> "absent", v |-> <<>>]
BranchesNull == [k |-> "null", v |-> <<>>]
BranchesInt == [k |-> "int", v |-> <<>>]
BranchesStr(s) == [k |-> "str", v |-> <<s>>]
BranchesList(v) == [k |-> "list", v |-> v]

PushNull == [k |-> "null", branches |-> BranchesAbsent]
PushMap(branches) == [k |-> "map", branches |-> branches]

\* The trigger declaration: names are the trigger names in order, push the
\* configuration under the push key of a mapping.
OnAbsent == [k |-> "absent", names |-> <<>>, push |-> PushNull]
OnNull == [k |-> "null", names |-> <<>>, push |-> PushNull]
OnInt == [k |-> "int", names |-> <<>>, push |-> PushNull]
OnStr(t) == [k |-> "str", names |-> <<t>>, push |-> PushNull]
OnList(ts) == [k |-> "list", names |-> ts, push |-> PushNull]
OnMap(ts, push) == [k |-> "map", names |-> ts, push |-> push]

\* A loaded document.  k = "yamlerror": yaml.safe_load raises YAMLError;
\* "null": the file is empty; "str" / "list": the document is not a mapping.
\* on is the value under the string key 'on', onTrue the value under the
\* boolean key True (what an unquoted on: decodes to).
Workflow(perms, on, onTrue, jobs) ==
    [k |-> "map", perms |-> perms, on |-> on, onTrue |-> onTrue, jobs |-> jobs]
NotAMapping(kind) ==
    [k |-> kind, perms |-> PermAbsent, on |-> OnAbsent, onTrue |-> OnAbsent,
     jobs |-> JobsAbsent]

\* ------------------------------------------------------------ sequence helpers
Range(s) == {s[i] : i \in DOMAIN s}

RECURSIVE SeqCount(_, _)
SeqCount(s, x) ==
    IF s = <<>> THEN 0
    ELSE (IF Head(s) = x THEN 1 ELSE 0) + SeqCount(Tail(s), x)

\* The action identities the documents of the model use.
ActionIds ==
    Range(PagesActionOrder)
        \cup {"actions/setup-node", "actions/deploy-pages-beta", "myorg/deploy-pages"}

\* for step in steps: a null or a number cannot be iterated (TypeError); a
\* non-empty string or mapping yields strings, which have no get.
IterRaises(steps) == steps.k \in {"null", "int"}
StepItems(steps) ==
    IF steps.k = "list" THEN steps.v
    ELSE IF steps.k \in {"str", "map"} THEN <<StepStr>>
    ELSE <<>>

\* --------------------------------------- _validate_workflow_permissions (233-312)
\* any(step.get('uses', '').startswith(action) for step in steps for action in
\* PAGES_ACTIONS): "T", "F", or the exception met before the first match.
RECURSIVE has_pages_actions(_)
has_pages_actions(items) ==
    IF items = <<>> THEN "F"
    ELSE LET step == Head(items) IN
        IF step.k # "map" THEN "AttributeError"
        ELSE IF step.uses.k \in {"null", "int"} THEN "AttributeError"
        ELSE IF /\ step.uses.k = "str"
                /\ \E i \in DOMAIN PagesActionOrder :
                       StartsWith(step.uses.a, PagesActionOrder[i])
             THEN "T"
        ELSE has_pages_actions(Tail(items))

\* Lines 255-260 without the condition of line 255: every job is taken.
pages_jobs_then_every_job(j, h, rest) ==
    IF h \notin {"T", "F"} THEN [exc |-> h, perms |-> <<>>]
    ELSE IF rest.exc # "" THEN rest
    ELSE [exc |-> "", perms |-> <<j.cfg.perms>> \o rest.perms]

\* The loop over jobs.items() (244-260): the permission scopes of the jobs
\* taken as publish-related, in order, or the exception that ends the loop.
\* Line 255-260 for job j, whose steps gave h, before the jobs after it.
pages_jobs_then(j, h, rest) ==
    IF h \notin {"T", "F"} THEN [exc |-> h, perms |-> <<>>]
    ELSE IF rest.exc # "" THEN rest
    ELSE [exc |-> "",
          perms |-> (IF h = "T" \/ NameSuggestsPages(j.name)
                     THEN <<j.cfg.perms>> ELSE <<>>) \o rest.perms]

RECURSIVE pages_jobs(_)
pages_jobs(js) ==
    IF js = <<>> THEN [exc |-> "", perms |-> <<>>]
    ELSE IF Head(js).cfg.k # "map" THEN [exc |-> "AttributeError", perms |-> <<>>]
    ELSE IF IterRaises(Head(js).cfg.steps) THEN [exc |-> "TypeError", perms |-> <<>>]
    ELSE CHOOSE r \in {pages_jobs_then(j, h, rest) :
                           j \in {Head(js)},
                           h \in {has_pages_actions(StepItems(Head(js).cfg.steps))},
                           rest \in {pages_jobs(Tail(js))}} : TRUE

\* all_permissions.update(job['permissions']) for each publish-related job
\* (264-265): update(None) is a TypeError, update of a string or of a list of
\* strings a ValueError.
RECURSIVE merge_job_permissions(_, _)
merge_job_permissions(all, ps) ==
    IF ps = <<>> THEN [exc |-> "", m |-> all]
    ELSE LET p == Head(ps) IN
        IF p.k = "null" THEN [exc |-> "TypeError", m |-> all]
        ELSE IF p.k \in {"str", "list"} THEN [exc |-> "ValueError", m |-> all]
        ELSE merge_job_permissions(
                 [q \in PermKeys |->
                     IF p.k = "map" /\ p.m[q] # "absent" THEN p.m[q] ELSE all[q]],
                 Tail(ps))

\* Lines 263-265, after the loop over the jobs gave pj: {**workflow_permissions}
\* needs a mapping.
merge_permissions(workflow_permissions, pj) ==
    IF pj.exc # "" THEN [exc |-> pj.exc, m |-> NoPerm]
    ELSE IF workflow_permissions.k \notin {"absent", "map"}
         THEN [exc |-> "TypeError", m |-> NoPerm]
    ELSE merge_job_permissions(workflow_permissions.m, pj.perms)

\* The merged permission view (237-265), or the exception raised on the way.
merged_permissions(cfg) ==
    IF cfg.k # "map" THEN [exc |-> "AttributeError", m |-> NoPerm]
    ELSE IF cfg.jobs.k \notin {"absent", "map"}
         THEN [exc |-> "AttributeError", m |-> NoPerm]
    ELSE CHOOSE r \in {merge_permissions(cfg.perms, pj) :
                           pj \in {pages_jobs(cfg.jobs.v)}} : TRUE

missing_permissions(all) ==
    SelectSeq(RequiredOrder, LAMBDA p : all[p] = "absent")

incorrect_permissions(all) ==
    SelectSeq(RequiredOrder,
              LAMBDA p : all[p] # "absent" /\ all[p] # REQUIRED_PERMISSIONS[p])

\* Lines 267-312, for the merged view.
permissions_result(workflow_file, merged) ==
    LET missing == missing_permissions(merged.m)
        incorrect == incorrect_permissions(merged.m)
    IN  IF merged.exc # "" THEN Raised(merged.exc)
        ELSE IF missing # <<>> \/ incorrect # <<>>
             THEN Returned(<<create_result(
                      <<"workflow_permissions", workflow_file, "">>, FAIL, HIGH,
                      [i \in DOMAIN missing |-> <<"missing", missing[i], "">>]
                      \o [i \in DOMAIN incorrect |->
                             <<"incorrect", incorrect[i], merged.m[incorrect[i]]>>])>>)
        ELSE Returned(<<create_result(
                 <<"workflow_permissions", workflow_file, "">>, PASS, LOW, <<>>)>>)

validate_workflow_permissions(workflow_file, cfg) ==
    CHOOSE r \in {permissions_result(workflow_file, merged) :
                      merged \in {merged_permissions(cfg)}} : TRUE

\* Lines 319-328 where only a list is coerced to a mapping.
normalized_triggers_lists_only(cfg) ==
    CHOOSE t \in {IF triggers.k = "absent" THEN OnMap(<<>>, PushNull)
                  ELSE IF triggers.k = "list"
                       THEN OnMap(triggers.names, PushMap(BranchesAbsent))
                  ELSE triggers :
                     triggers \in {IF \/ cfg.on.k \in {"absent", "null"}
                                      \/ (cfg.on.k = "map" /\ cfg.on.names = <<>>)
                                   THEN cfg.onTrue ELSE cfg.on}} : TRUE

\* ------------------------------------------ _validate_workflow_triggers (314-387)
\* Lines 319-328: the declaration after the fallback to the boolean key and
\* the coercion of a string or a list to a mapping.
normalized_triggers(cfg) ==
    LET first == cfg.on
        triggers == IF \/ first.k \in {"absent", "null"}
                       \/ (first.k = "map" /\ first.names = <<>>)
                    THEN cfg.onTrue ELSE first
    IN  IF triggers.k = "absent" THEN OnMap(<<>>, PushNull)
        ELSE IF triggers.k \in {"str", "list"}
             THEN OnMap(triggers.names, PushMap(BranchesAbsent))
        ELSE triggers

expected_branches == <<"main", "prod", "master">>

\* Lines 331-360: the violated rules, in the order the code appends them.
trigger_issues(triggers) ==
    LET has_push_trigger == "push" \in Range(triggers.names)
        push_branches == IF has_push_trigger /\ triggers.push.k = "map"
                         THEN triggers.push.branches ELSE BranchesAbsent
        truthy == \/ push_branches.k \in {"list", "str"} /\ push_branches.v # <<>>
                  \/ push_branches.k = "int"
        found_branches ==
            SelectSeq(expected_branches,
                      LAMBDA b : IF push_branches.k = "str"
                                 THEN BranchInString(b, push_branches.v[1])
                                 ELSE b \in Range(push_branches.v))
        has_manual_trigger == "workflow_dispatch" \in Range(triggers.names)
    IN  (IF ~has_push_trigger THEN <<"missing_push">>
         ELSE IF truthy /\ found_branches = <<>> THEN <<"push_branches">>
         ELSE <<>>)
        \o (IF ~has_manual_trigger THEN <<"missing_workflow_dispatch">> ELSE <<>>)

\* Lines 362-387, for the list of issues.
triggers_result(workflow_file, issues) ==
    IF issues # <<>>
    THEN Returned(<<create_result(
             <<"workflow_triggers", workflow_file, "">>, FAIL, HIGH,
             [i \in DOMAIN issues |-> <<"issue", issues[i], "">>])>>)
    ELSE Returned(<<create_result(
             <<"workflow_triggers", workflow_file, "">>, PASS, LOW, <<>>)>>)

\* Lines 330-387, for the normalized declaration.
check_triggers(workflow_file, triggers) ==
    \* 'push' in triggers, when triggers is None or a number
    IF triggers.k # "map" THEN Raised("TypeError")
    \* branch in push_branches, when push_branches is a number
    ELSE IF /\ "push" \in Range(triggers.names)
            /\ triggers.push.k = "map"
            /\ triggers.push.branches.k = "int"
         THEN Raised("TypeError")
    ELSE CHOOSE r \in {triggers_result(workflow_file, issues) :
                           issues \in {trigger_issues(triggers)}} : TRUE

validate_workflow_triggers(workflow_file, cfg) ==
    IF cfg.k # "map" THEN Raised("AttributeError")
    ELSE CHOOSE r \in {check_triggers(workflow_file, triggers) :
                           triggers \in {normalized_triggers(cfg)}} : TRUE

\* --------------------------------------------- _validate_workflow_steps (389-468)
\* used_actions marks an identity no step uses with this tag.
NotUsed == <<"-">>

\* Lines 402-409: action identity -> version tag of the last step that uses it,
\* or the exception a step raises.
RECURSIVE used_actions_of(_, _)
used_actions_of(items, used) ==
    IF items = <<>> THEN [exc |-> "", used |-> used]
    ELSE LET step == Head(items) IN
        IF step.k # "map" THEN [exc |-> "AttributeError", used |-> used]
        \* if uses: is true of a number; '@' in uses then raises
        ELSE IF step.uses.k = "int" THEN [exc |-> "TypeError", used |-> used]
        ELSE IF step.uses.k = "str" /\ step.uses.at
             THEN used_actions_of(Tail(items),
                                  [used EXCEPT ![step.uses.a] = step.uses.ver])
        ELSE used_actions_of(Tail(items), used)

\* Lines 412-425 with the current tag of the table in place of the minimum.
outdated_actions_below_current(used) ==
    SelectSeq(PagesActionOrder,
              LAMBDA a : /\ used[a] # NotUsed
                         /\ StrLess(used[a], PAGES_ACTIONS[a].current))

\* Lines 412-425
outdated_actions(used) ==
    SelectSeq(PagesActionOrder,
              LAMBDA a : /\ used[a] # NotUsed
                         /\ StrLess(used[a], PAGES_ACTIONS[a].min_version))

essential_actions == <<"actions/checkout", "actions/deploy-pages">>

\* Lines 428-431
missing_actions(used) ==
    SelectSeq(essential_actions, LAMBDA a : used[a] = NotUsed)

\* Lines 434-466 where the status is WARNING whenever an action is outdated,
\* the severity as in the code.
steps_result_warning_when_outdated(workflow_file, job_name, used) ==
    LET outdated == outdated_actions(used)
        missing == missing_actions(used)
        details == [i \in DOMAIN outdated |-> <<"outdated", outdated[i], "">>]
                   \o [i \in DOMAIN missing |-> <<"missing", missing[i], "">>]
    IN  IF outdated # <<>> \/ missing # <<>>
        THEN create_result(
                 <<"workflow_steps", workflow_file, job_name>>,
                 IF outdated # <<>> THEN WARNING ELSE FAIL,
                 IF outdated # <<>> /\ missing = <<>> THEN MEDIUM ELSE HIGH,
                 details)
        ELSE create_result(
                 <<"workflow_steps", workflow_file, job_name>>, PASS, LOW, <<>>)

\* Lines 434-466: the result of one job.
steps_result(workflow_file, job_name, used) ==
    LET outdated == outdated_actions(used)
        missing == missing_actions(used)
        details == [i \in DOMAIN outdated |-> <<"outdated", outdated[i], "">>]
                   \o [i \in DOMAIN missing |-> <<"missing", missing[i], "">>]
    IN  IF outdated # <<>> \/ missing # <<>>
        THEN create_result(
                 <<"workflow_steps", workflow_file, job_name>>,
                 IF outdated # <<>> /\ missing = <<>> THEN WARNING ELSE FAIL,
                 IF outdated # <<>> /\ missing = <<>> THEN MEDIUM ELSE HIGH,
                 details)
        ELSE create_result(
                 <<"workflow_steps", workflow_file, job_name>>, PASS, LOW, <<>>)

\* The result of the job (u: its used actions) before those of the jobs after
\* it, unless one of them raised.
steps_then(workflow_file, job_name, u, rest) ==
    IF u.exc # "" THEN Raised(u.exc)
    ELSE IF rest.raised THEN rest
    ELSE Returned(<<steps_result(workflow_file, job_name, u.used)>> \o rest.results)

RECURSIVE steps_of_jobs(_, _)
steps_of_jobs(workflow_file, js) ==
    IF js = <<>> THEN Returned(<<>>)
    ELSE IF Head(js).cfg.k # "map" THEN Raised("AttributeError")
    ELSE IF IterRaises(Head(js).cfg.steps) THEN Raised("TypeError")
    ELSE CHOOSE r \in
             {steps_then(workflow_file, Head(js).name, u, rest) :
                  u \in {used_actions_of(StepItems(Head(js).cfg.steps),
                                         [a \in ActionIds |-> NotUsed])},
                  rest \in {steps_of_jobs(workflow_file, Tail(js))}} : TRUE

validate_workflow_steps(workflow_file, cfg) ==
    IF cfg.k # "map" THEN Raised("AttributeError")
    ELSE IF cfg.jobs.k \notin {"absent", "map"} THEN Raised("AttributeError")
    ELSE steps_of_jobs(workflow_file, cfg.jobs.v)

\* ------------------------------------------- _validate_pages_deployment (470-549)
\* Lines 484-495: the three flags of one job after its steps, or the exception
\* a step raises ('configure-pages' in uses needs a string).
RECURSIVE deployment_flags(_, _)
deployment_flags(items, flags) ==
    IF items = <<>> THEN [exc |-> "", flags |-> flags]
    ELSE LET step == Head(items) IN
        IF step.k # "map" THEN [exc |-> "AttributeError", flags |-> flags]
        ELSE IF step.uses.k \in {"null", "int"}
             THEN [exc |-> "TypeError", flags |-> flags]
        ELSE IF step.uses.k = "absent" THEN deployment_flags(Tail(items), flags)
        ELSE IF Contains(step.uses.a, "configure-pages")
             THEN deployment_flags(Tail(items), [flags EXCEPT !.configure = TRUE])
        ELSE IF Contains(step.uses.a, "upload-pages-artifact")
             THEN deployment_flags(Tail(items), [flags EXCEPT !.upload = TRUE])
        ELSE IF Contains(step.uses.a, "deploy-pages")
             THEN deployment_flags(Tail(items), [flags EXCEPT !.deploy = TRUE])
        ELSE deployment_flags(Tail(items), flags)

\* Lines 505-511
missing_steps(flags) ==
    (IF ~flags.configure THEN <<"configure-pages">> ELSE <<>>)
    \o (IF ~flags.upload THEN <<"upload-pages-artifact">> ELSE <<>>)
    \o (IF ~flags.deploy THEN <<"deploy-pages">> ELSE <<>>)

\* Lines 480-514: has_pages_deployment and deployment_issues (one triple per
\* job and missing step), or the exception that ends the loop.
DeploymentRaised(e) ==
    [exc |-> e, has_pages_deployment |-> FALSE, issues |-> <<>>]

\* Lines 497-514 for a job with the flags f, before the jobs after it.
deployment_then(job_name, f, rest) ==
    LET is_publish == f.flags.configure \/ f.flags.upload \/ f.flags.deploy
        miss == IF is_publish THEN missing_steps(f.flags) ELSE <<>>
    IN  IF f.exc # "" THEN DeploymentRaised(f.exc)
        ELSE IF rest.exc # "" THEN rest
        ELSE [exc |-> "",
              has_pages_deployment |-> is_publish \/ rest.has_pages_deployment,
              issues |-> [i \in DOMAIN miss |-> <<"missing", job_name, miss[i]>>]
                         \o rest.issues]

RECURSIVE deployment_of_jobs(_)
deployment_of_jobs(js) ==
    IF js = <<>> THEN [exc |-> "", has_pages_deployment |-> FALSE, issues |-> <<>>]
    ELSE IF Head(js).cfg.k # "map" THEN DeploymentRaised("AttributeError")
    ELSE IF IterRaises(Head(js).cfg.steps) THEN DeploymentRaised("TypeError")
    ELSE CHOOSE r \in
             {deployment_then(Head(js).name, f, rest) :
                  f \in {deployment_flags(StepItems(Head(js).cfg.steps),
                                          [configure |-> FALSE, upload |-> FALSE,
                                           deploy |-> FALSE])},
                  rest \in {deployment_of_jobs(Tail(js))}} : TRUE

\* Lines 516-549, for what the loop over the jobs found.
deployment_result(workflow_file, d) ==
    IF d.exc # "" THEN Raised(d.exc)
    ELSE IF ~d.has_pages_deployment
         THEN Returned(<<create_result(
                  <<"pages_deployment", workflow_file, "">>, FAIL, CRITICAL, <<>>)>>)
    ELSE IF d.issues # <<>>
         THEN Returned(<<create_result(
                  <<"pages_deployment", workflow_file, "">>, FAIL, HIGH, d.issues)>>)
    ELSE Returned(<<create_result(
             <<"pages_deployment", workflow_file, "">>, PASS, LOW, <<>>)>>)

validate_pages_deployment(workflow_file, cfg) ==
    IF cfg.k # "map" THEN Raised("AttributeError")
    ELSE IF cfg.jobs.k \notin {"absent", "map"} THEN Raised("AttributeError")
    ELSE CHOOSE r \in {deployment_result(workflow_file, d) :
                           d \in {deployment_of_jobs(cfg.jobs.v)}} : TRUE

\* ----------------------------------------- _assess_overall_configuration (551-598)
\* any('deploy-pages' in step.get('uses', '') for step in steps): "T", "F" or
\* the exception met before the first match.
RECURSIVE any_deploy_pages(_)
any_deploy_pages(items) ==
    IF items = <<>> THEN "F"
    ELSE LET step == Head(items) IN
        IF step.k # "map" THEN "AttributeError"
        ELSE IF step.uses.k \in {"null", "int"} THEN "TypeError"
        ELSE IF step.uses.k = "str" /\ Contains(step.uses.a, "deploy-pages") THEN "T"
        ELSE any_deploy_pages(Tail(items))

\* Lines 569-573: does some job of the workflow deploy (break at the first).
RECURSIVE some_job_deploys(_)
some_job_deploys(js) ==
    IF js = <<>> THEN "F"
    ELSE LET j == Head(js) IN
        IF j.cfg.k # "map" THEN "AttributeError"
        ELSE IF IterRaises(j.cfg.steps) THEN "TypeError"
        ELSE LET h == any_deploy_pages(StepItems(j.cfg.steps)) IN
            IF h # "F" THEN h ELSE some_job_deploys(Tail(js))

\* ------------------------------------------------------------ the documents
V1 == <<"v", "1">>
V2 == <<"v", "2">>
V3 == <<"v", "3">>
V4 == <<"v", "4">>
V10 == <<"v", "1", "0">>

FullPermissions ==
    PermMap(("contents" :> "read") @@ ("pages" :> "write") @@ ("id-token" :> "write"))

PushMainAndDispatch ==
    OnMap(<<"push", "workflow_dispatch">>, PushMap(BranchesList(<<"main">>)))

FullDeploySteps ==
    StepsList(<<Step(Uses("actions/checkout", V4)),
                Step(Uses("actions/configure-pages", V4)),
                Step(Uses("actions/upload-pages-artifact", V3)),
                Step(Uses("actions/deploy-pages", V4))>>)

\* What yaml.safe_load gives for the content named id (or that it raises).
Doc(id) ==
    CASE id = "valid" ->          \* tests/test_workflow_inspector.py 70-98
            Workflow(FullPermissions, PushMainAndDispatch, OnAbsent,
                     JobsMap(<<NamedJob("deploy", Job(PermAbsent, FullDeploySteps))>>))
      [] id = "noperm" ->         \* tests/test_workflow_inspector.py 129-146
            Workflow(PermMap("contents" :> "read"),
                     OnMap(<<"push">>, PushMap(BranchesList(<<"main">>))), OnAbsent,
                     JobsMap(<<NamedJob("deploy", Job(PermAbsent,
                         StepsList(<<Step(Uses("actions/checkout", V4)),
                                     Step(Uses("actions/deploy-pages", V4))>>)))>>))
      [] id = "ci" ->             \* an unquoted on: push, a job that publishes nothing
            Workflow(PermMap("contents" :> "read"), OnAbsent, OnStr("push"),
                     JobsMap(<<NamedJob("test", Job(PermAbsent,
                         StepsList(<<Step(Uses("actions/checkout", V2)),
                                     Step(UsesAbsent)>>)))>>))
      [] id = "permstr" ->        \* permissions: read-all
            Workflow(PermStr, PushMainAndDispatch, OnAbsent,
                     JobsMap(<<NamedJob("deploy", Job(PermAbsent, FullDeploySteps))>>))
      [] id = "jobsnull" ->       \* jobs: with nothing under it
            Workflow(FullPermissions, PushMainAndDispatch, OnAbsent, JobsNull)
      [] id = "stepstr" ->        \* a step written as a plain string
            Workflow(FullPermissions, PushMainAndDispatch, OnAbsent,
                     JobsMap(<<NamedJob("deploy", Job(PermAbsent,
                         StepsList(<<Step(Uses("actions/checkout", V4)), StepStr>>)))>>))
      [] id = "onnull" ->         \* an unquoted on: with nothing under it
            Workflow(FullPermissions, OnAbsent, OnNull,
                     JobsMap(<<NamedJob("deploy", Job(PermAbsent, FullDeploySteps))>>))
      [] id = "jobperm" ->        \* the job widens what the workflow grants
            Workflow(PermMap(("contents" :> "read") @@ ("pages" :> "read")),
                     PushMainAndDispatch, OnAbsent,
                     JobsMap(<<NamedJob("deploy",
                         Job(PermMap(("pages" :> "write") @@ ("id-token" :> "write")),
                             FullDeploySteps))>>))
      [] id = "otherjob" ->       \* permissions on a job that publishes nothing
            Workflow(PermMap(("contents" :> "write") @@ ("pages" :> "read")),
                     PushMainAndDispatch, OnAbsent,
                     JobsMap(<<NamedJob("lint",
                                   Job(PermMap(("contents" :> "read")
                                               @@ ("id-token" :> "write")),
                                       StepsList(<<Step(Uses("actions/setup-node", V4))>>))),
                               NamedJob("deploy", Job(PermMap("pages" :> "write"),
                                                      FullDeploySteps))>>))
      [] id = "twoperm" ->        \* a build job and a deploy job, on: as a list
            Workflow(PermMap("contents" :> "read"),
                     OnList(<<"push", "workflow_dispatch">>), OnAbsent,
                     JobsMap(<<NamedJob("build",
                                   Job(PermMap(("pages" :> "write")
                                               @@ ("id-token" :> "write")),
                                       StepsList(<<Step(Uses("actions/checkout", V4)),
                                                   Step(Uses("actions/configure-pages", V4)),
                                                   Step(Uses("actions/upload-pages-artifact", V3))>>))),
                               NamedJob("deploy",
                                   Job(PermMap("pages" :> "read"),
                                       StepsList(<<Step(Uses("actions/deploy-pages", V4))>>)))>>))
      [] id = "devbranch" ->      \* tests/test_workflow_inspector.py 186-204, on develop
            Workflow(FullPermissions,
                     OnMap(<<"push">>, PushMap(BranchesList(<<"develop">>))), OnAbsent,
                     JobsMap(<<NamedJob("deploy", Job(PermAbsent,
                         StepsList(<<Step(Uses("actions/checkout", V2)),
                                     Step(Uses("actions/deploy-pages", V1))>>)))>>))
      [] id = "pushnull" ->       \* push: with nothing under it, deploy-pages@v10
            Workflow(FullPermissions,
                     OnMap(<<"push", "workflow_dispatch">>, PushNull), OnAbsent,
                     JobsMap(<<NamedJob("deploy", Job(PermAbsent,
                         StepsList(<<Step(Uses("actions/checkout", V4)),
                                     Step(Uses("actions/configure-pages", V4)),
                                     Step(Uses("actions/upload-pages-artifact", V3)),
                                     Step(Uses("actions/deploy-pages", V10))>>)))>>))
      [] id = "branchstr" ->      \* branches: maintenance
            Workflow(FullPermissions,
                     OnMap(<<"push", "workflow_dispatch">>,
                           PushMap(BranchesStr("maintenance"))), OnAbsent,
                     JobsMap(<<NamedJob("deploy", Job(PermAbsent, FullDeploySteps))>>))
      [] id = "twice" ->          \* checkout@v2 and later checkout@v4 in one job
            Workflow(FullPermissions, PushMainAndDispatch, OnAbsent,
                     JobsMap(<<NamedJob("deploy", Job(PermAbsent,
                         StepsList(<<Step(Uses("actions/checkout", V2)),
                                     Step(Uses("actions/checkout", V4)),
                                     Step(Uses("actions/configure-pages", V4)),
                                     Step(Uses("actions/upload-pages-artifact", V3)),
                                     Step(Uses("actions/deploy-pages", V4))>>)))>>))
      [] id = "nojobs" ->         \* on: pull_request and nothing else
            Workflow(PermAbsent, OnMap(<<"pull_request">>, PushNull), OnAbsent,
                     JobsAbsent)
      [] id = "thirdparty" ->     \* the deploy step of another publisher
            Workflow(FullPermissions, PushMainAndDispatch, OnAbsent,
                     JobsMap(<<NamedJob("deploy", Job(PermAbsent,
                         StepsList(<<Step(Uses("actions/checkout", V4)),
                                     Step(Uses("actions/configure-pages", V4)),
                                     Step(Uses("actions/upload-pages-artifact", V3)),
                                     Step(Uses("myorg/deploy-pages", V1))>>)))>>))
      [] id = "jobpermstr" ->     \* permissions: read-all on a job that only lints
            Workflow(FullPermissions, PushMainAndDispatch, OnAbsent,
                     JobsMap(<<NamedJob("lint",
                                   Job(PermStr,
                                       StepsList(<<Step(Uses("actions/setup-node", V4))>>))),
                               NamedJob("deploy", Job(PermAbsent, FullDeploySteps))>>))
      [] id = "scalar" -> NotAMapping("str")        \* the file holds one word
      [] id = "empty" -> NotAMapping("null")        \* no content
      [] id = "yamlerror" -> NotAMapping("yamlerror")
      [] id = "unreadable" -> NotAMapping("unreadable")   \* open() raises OSError
      [] OTHER -> NotAMapping("nofile")

\* ------------------------------------------------------- the workflow engine
\* Python evaluates an argument once, before the call: where the value of a
\* call goes into another call it is bound first, CHOOSE r \in {f(x) : x \in {e}}.
\* The file names of the model, in directory listing order.
FileNames == <<"pages.yml", "ci.yaml">>
NoFile == "nofile"

HasSuffix(name, pattern) ==
    <<name, pattern>> \in {<<"pages.yml", "*.yml">>, <<"ci.yaml", "*.yaml">>}

\* self.workflows_path.glob(pattern)
glob(fls, pattern) ==
    SelectSeq(FileNames, LAMBDA f : fls[f] # NoFile /\ HasSuffix(f, pattern))

\* _check_workflows_directory (100-125)
check_workflows_directory(dir) ==
    IF ~dir
    THEN <<create_result(<<"workflows_directory_exists", "", "">>, FAIL, HIGH, <<>>)>>
    ELSE <<create_result(<<"workflows_directory_exists", "", "">>, PASS, LOW, <<>>)>>

\* _discover_workflow_files (127-171): the new self.workflow_files and the result.
\* glob is taken not to raise, so the except branch (160-169) is not entered.
discover_workflow_files(fls, self) ==
    LET found == self.workflow_files \o glob(fls, "*.yml") \o glob(fls, "*.yaml") IN
    [workflow_files |-> found,
     results |->
        IF found = <<>>
        THEN <<create_result(<<"workflow_files_found", "", "">>, FAIL, HIGH, <<>>)>>
        ELSE <<create_result(<<"workflow_files_found", "", "">>, PASS, LOW, <<>>)>>]

\* self.parsed_workflows[name] = content: a dict keeps the place of a key it
\* already holds.
dict_set(d, name, id) ==
    IF \E i \in DOMAIN d : d[i].name = name
    THEN [i \in DOMAIN d |-> IF d[i].name = name THEN [name |-> name, doc |-> id]
                             ELSE d[i]]
    ELSE Append(d, [name |-> name, doc |-> id])

\* One turn of the loop of _parse_workflow_files (177-229) for workflow_file:
\* the new self.parsed_workflows and the result of the file.
parse_content(parsed, workflow_file, id, content) ==
    LET name == <<"parse_workflow", workflow_file, "">>
    IN  IF id = NoFile \/ content.k = "unreadable"
        THEN \* open() raises: except Exception (219-229)
             [parsed |-> parsed,
              result |-> create_result(name, FAIL, MEDIUM, <<<<"error", "OSError", "">>>>)]
        ELSE IF content.k = "yamlerror"
        THEN [parsed |-> parsed,
              result |-> create_result(name, FAIL, HIGH, <<<<"error", "YAMLError", "">>>>)]
        ELSE IF content.k = "null"
        THEN [parsed |-> parsed, result |-> create_result(name, FAIL, HIGH, <<>>)]
        ELSE IF content.k # "map"
        THEN \* stored at 193, then content.get raises at 198
             [parsed |-> dict_set(parsed, workflow_file, id),
              result |-> create_result(name, FAIL, MEDIUM,
                                       <<<<"error", "AttributeError", "">>>>)]
        ELSE IF content.jobs.k \in {"null", "int"}
        THEN \* stored at 193, then len() raises at 198
             [parsed |-> dict_set(parsed, workflow_file, id),
              result |-> create_result(name, FAIL, MEDIUM,
                                       <<<<"error", "TypeError", "">>>>)]
        ELSE [parsed |-> dict_set(parsed, workflow_file, id),
              result |-> create_result(name, PASS, LOW, <<>>)]

parse_one(fls, parsed, workflow_file) ==
    CHOOSE r \in {parse_content(parsed, workflow_file, fls[workflow_file], content) :
                      content \in {Doc(fls[workflow_file])}} : TRUE

\* The result of one file before those of the files after it.
parse_then(result, rest) ==
    [parsed_workflows |-> rest.parsed_workflows,
     results |-> <<result>> \o rest.results]

\* _parse_workflow_files (173-231) over the entries of self.workflow_files.
RECURSIVE parse_workflow_files(_, _, _)
RECURSIVE parse_rest(_, _, _)
parse_rest(fls, one, todo) ==
    CHOOSE r \in {parse_then(one.result, rest) :
                      rest \in {parse_workflow_files(fls, one.parsed, todo)}} : TRUE

parse_workflow_files(fls, parsed, todo) ==
    IF todo = <<>> THEN [parsed_workflows |-> parsed, results |-> <<>>]
    ELSE CHOOSE r \in {parse_rest(fls, one, Tail(todo)) :
                           one \in {parse_one(fls, parsed, Head(todo))}} : TRUE

\* The body of the loop of run_diagnostics (90-93) for one parsed workflow.
\* results.extend(...) four times: the first pass that raises ends the run.
extend4(p, t, s, d) ==
    IF p.raised THEN p
    ELSE IF t.raised THEN t
    ELSE IF s.raised THEN s
    ELSE IF d.raised THEN d
    ELSE Returned(p.results \o t.results \o s.results \o d.results)

validate_one(workflow_file, cfg) ==
    CHOOSE r \in {extend4(p, t, s, d) :
                      p \in {validate_workflow_permissions(workflow_file, cfg)},
                      t \in {validate_workflow_triggers(workflow_file, cfg)},
                      s \in {validate_workflow_steps(workflow_file, cfg)},
                      d \in {validate_pages_deployment(workflow_file, cfg)}} : TRUE

\* results.extend(...) of a call after the results of an earlier one.
extend(one, rest) ==
    IF one.raised THEN one
    ELSE IF rest.raised THEN rest
    ELSE Returned(one.results \o rest.results)

\* The loop of run_diagnostics (89-93) over self.parsed_workflows.items().
RECURSIVE validate_all(_)
validate_all(parsed) ==
    IF parsed = <<>> THEN Returned(<<>>)
    ELSE CHOOSE r \in {extend(one, rest) :
                           one \in {validate_one(Head(parsed).name, cfg) :
                                        cfg \in {Doc(Head(parsed).doc)}},
                           rest \in {validate_all(Tail(parsed))}} : TRUE

\* Lines 566-573: the number of parsed workflows with a deploying job, or the
\* exception met on the way.
count_then(h, rest) ==
    IF h \notin {"T", "F"} THEN [exc |-> h, n |-> 0]
    ELSE IF rest.exc # "" THEN rest
    ELSE [exc |-> "", n |-> rest.n + (IF h = "T" THEN 1 ELSE 0)]

\* workflow_config.get('jobs', {}) and jobs.values() (568-569), then the jobs.
deploys(cfg) ==
    IF cfg.k # "map" \/ cfg.jobs.k \notin {"absent", "map"} THEN "AttributeError"
    ELSE some_job_deploys(cfg.jobs.v)

RECURSIVE count_pages_workflows(_)
count_pages_workflows(parsed) ==
    IF parsed = <<>> THEN [exc |-> "", n |-> 0]
    ELSE CHOOSE r \in {count_then(h, rest) :
                           h \in {deploys(cfg) : cfg \in {Doc(Head(parsed).doc)}},
                           rest \in {count_pages_workflows(Tail(parsed))}} : TRUE

\* Lines 575-598, for the count c.
overall_result(c) ==
    IF c.exc # "" THEN Raised(c.exc)
    ELSE IF c.n = 0
         THEN Returned(<<create_result(
                  <<"overall_workflow_assessment", "", "">>, FAIL, HIGH, <<>>)>>)
    ELSE Returned(<<create_result(
             <<"overall_workflow_assessment", "", "">>, PASS, LOW, <<>>)>>)

assess_overall_configuration(parsed) ==
    IF parsed = <<>>
    THEN Returned(<<create_result(
             <<"overall_workflow_assessment", "", "">>, FAIL, CRITICAL, <<>>)>>)
    ELSE CHOOSE r \in {overall_result(c) : c \in {count_pages_workflows(parsed)}} : TRUE

\* Lines 85-98 once the files are discovered (found) and parsed (parsed).
run_after_parse(d, found, parsed) ==
    [workflow_files |-> found.workflow_files,
     parsed_workflows |-> parsed.parsed_workflows,
     out |-> CHOOSE r \in
                 {extend(Returned(d \o found.results \o parsed.results),
                         extend(validated, overall)) :
                      validated \in {validate_all(parsed.parsed_workflows)},
                      overall \in {assess_overall_configuration(
                                       parsed.parsed_workflows)}} : TRUE]

\* Lines 85-98 once the files are discovered.
run_after_discovery(d, fls, self, found) ==
    CHOOSE r \in {run_after_parse(d, found, parsed) :
                      parsed \in {parse_workflow_files(fls, self.parsed_workflows,
                                                       found.workflow_files)}} : TRUE

\* run_diagnostics without the return of lines 79-80.
inspector_run_without_return(dir, fls, self) ==
    CHOOSE r \in {run_after_discovery(check_workflows_directory(dir), fls, self,
                                      found) :
                      found \in {discover_workflow_files(fls, self)}} : TRUE

\* WorkflowInspector.run_diagnostics (67-98) on the directory (dir, fls) by an
\* instance with the fields self.workflow_files and self.parsed_workflows: the
\* two fields afterwards and what the call produced.
inspector_run(dir, fls, self) ==
    IF ~dir
    THEN [workflow_files |-> self.workflow_files,
          parsed_workflows |-> self.parsed_workflows,
          out |-> Returned(check_workflows_directory(dir))]
    ELSE CHOOSE r \in {run_after_discovery(check_workflows_directory(dir), fls,
                                           self, found) :
                           found \in {discover_workflow_files(fls, self)}} : TRUE

\* get_workflow_summary (600-630), the loop of lines 616-623 for one parsed
\* definition: .get on what is not a mapping, .keys() on permissions that are
\* not a mapping and .values() on jobs that are not a mapping raise
\* AttributeError; otherwise the permission keys at workflow and job scope.
summary_raises(cfg) ==
    \/ cfg.k # "map"
    \/ cfg.perms.k \notin {"absent", "map"}
    \/ cfg.jobs.k \notin {"absent", "map"}
    \/ \E i \in DOMAIN cfg.jobs.v :
          \/ cfg.jobs.v[i].cfg.k # "map"
          \/ cfg.jobs.v[i].cfg.perms.k \notin {"absent", "map"}

summary_keys(cfg) ==
    {q \in PermKeys : cfg.perms.m[q] # "absent"}
        \cup {q \in PermKeys :
                 \E i \in DOMAIN cfg.jobs.v : cfg.jobs.v[i].cfg.perms.m[q] # "absent"}

\* WorkflowInspector.get_workflow_summary (600-630) of an instance with the
\* fields self.
get_workflow_summary(self) ==
    IF \E i \in DOMAIN self.parsed_workflows :
           summary_raises(Doc(self.parsed_workflows[i].doc))
    THEN [exc |-> "AttributeError", workflows_found |-> 0, workflows_parsed |-> 0,
          permissions_found |-> {}, has_required_permissions |-> FALSE]
    ELSE [exc |-> "",
          workflows_found |-> Len(self.workflow_files),
          workflows_parsed |-> Len(self.parsed_workflows),
          permissions_found |->
              UNION {summary_keys(Doc(self.parsed_workflows[i].doc)) :
                         i \in DOMAIN self.parsed_workflows},
          has_required_permissions |->
              \A q \in DOMAIN REQUIRED_PERMISSIONS :
                  \E i \in DOMAIN self.parsed_workflows :
                      q \in summary_keys(Doc(self.parsed_workflows[i].doc))]

\* ------------------------------------------------------------------ bounds
MaxComponents == 2
MaxSessions == 2
MaxRuns == 2
MaxEdits == 1

\* ------------------------------------------------------------------- state
VARIABLES
    dirExists,          \* .github/workflows exists
    files,              \* file name -> content id, or NoFile
    edits,              \* changes made to the directory so far
    component,          \* component id -> the fields of the component object
    last,               \* what the last direct call on the engine produced
    changed,            \* the directory changed since that call
    components,         \* orchestrator.components
    current_session,    \* orchestrator.current_session
    origin,             \* for each session result: the turn that appended it
    calls,              \* the turns of the loop of the current run_diagnostics
    pc,                 \* "idle", or "running" inside run_diagnostics
    idx,                \* position of the loop of run_diagnostics
    now,                \* the clock datetime.now() reads
    error,              \* exception the last orchestrator call raised, or ""
    sessions,           \* sessions started so far
    runs,               \* calls made so far
    cli,                \* the command line process: its arguments, position, exit
    retry,              \* a TestingComponent inside _execute_with_retry
    arg                 \* the workflow definition handed to one check on its own

vars == <<dirExists, files, edits, component, last, changed, components,
          current_session, origin, calls, pc, idx, now, error, sessions, runs,
          cli, retry, arg>>

toolVars == <<cli, retry, arg>>

fsVars == <<dirExists, files, edits>>
orchVars == <<components, current_session, origin, calls, pc, idx, now, error,
              sessions>>

\* The component objects of the model: two WorkflowInspector instances on the
\* same repository, a checker whose run_diagnostics returns two results, a
\* checker whose run_diagnostics fails after it put a result into
\* self.results, and an object whose execute is not DiagnosticComponent's.
Comps == {"wi1", "wi2", "ok", "bad", "ext"}
Inspectors == {"wi1", "wi2"}

\* component.name (workflow_inspector.py 61 for the inspectors)
Name(c) ==
    CASE c \in Inspectors -> "WorkflowInspector"
      [] c = "ok" -> "OkChecker"
      [] c = "bad" -> "BadChecker"
      [] c = "ext" -> "External"

\* DiagnosticComponent.__init__ (24-36), WorkflowInspector.__init__ (53-65);
\* a time is FALSE while None.  fault is the exception the run_diagnostics
\* call of the last execute raised, escaped the exception that execute let
\* through to its caller ("" if none).
NewComponent ==
    [workflow_files |-> <<>>, parsed_workflows |-> <<>>, results |-> <<>>,
     start_time |-> FALSE, end_time |-> FALSE, fault |-> "", escaped |-> ""]

NoTime == 0
NoSession == [session_id |-> 0, start_time |-> NoTime, end_time |-> NoTime,
              diagnostic_results |-> <<>>]

NoCall == [op |-> "none", out |-> Returned(<<>>)]

\* The contents a workflow file of the model can have.
DocIds == {"valid", "ci", "permstr", "jobsnull", "stepstr", "onnull", "scalar",
           "empty", "yamlerror"}

\* The repositories the orchestrator is run on.
Repositories ==
    {[dir |-> FALSE, pages |-> NoFile, ci |-> NoFile],
     [dir |-> TRUE, pages |-> NoFile, ci |-> NoFile],
     [dir |-> TRUE, pages |-> "valid", ci |-> NoFile],
     [dir |-> TRUE, pages |-> "valid", ci |-> "ci"],
     [dir |-> TRUE, pages |-> "valid", ci |-> "scalar"],
     [dir |-> TRUE, pages |-> "yamlerror", ci |-> NoFile]}

\* No command line process, no retried operation.
NoCli == [pc |-> "none"]
NoRetry == [pc |-> "none"]
NoArg == [form |-> "none"]

NoTools == cli = NoCli /\ retry = NoRetry /\ arg = NoArg

Fresh ==
    /\ edits = 0
    /\ component = [c \in Comps |-> NewComponent]
    /\ last = NoCall
    /\ changed = FALSE
    /\ components = <<>>
    /\ current_session = NoSession
    /\ origin = <<>>
    /\ calls = <<>>
    /\ pc = "idle"
    /\ idx = 0
    /\ now = 1
    /\ error = ""
    /\ sessions = 0
    /\ runs = 0

\* The orchestrator after construction (orchestrator.py 25-35), on one of the
\* repositories.
Init ==
    /\ \E r \in Repositories :
          /\ dirExists = r.dir
          /\ files = ("pages.yml" :> r.pages) @@ ("ci.yaml" :> r.ci)
    /\ Fresh
    /\ NoTools

\* ------------------------------------------------------------------ base.py
\* The result execute makes of an exception (155-162).
execution_error_result(name, exc) ==
    create_result(<<"execution", name, "">>, FAIL, HIGH,
                  <<<<"exception_type", exc, "">>>>)

\* run_diagnostics of component c with the fields self, self.results reset:
\* the fields afterwards and what the call produced.
inspector_fields(self, r) ==
    [self |-> [self EXCEPT !.workflow_files = r.workflow_files,
                           !.parsed_workflows = r.parsed_workflows],
     out |-> r.out]

run_diagnostics_of(c, self, dir, fls) ==
    CASE c \in Inspectors ->
            CHOOSE r \in {inspector_fields(self, run) :
                              run \in {inspector_run(dir, fls, self)}} : TRUE
      [] c = "ok" ->
            [self |-> self,
             out |-> Returned(<<create_result(<<"check_a", "", "">>, PASS, LOW, <<>>),
                                create_result(<<"check_b", "", "">>, FAIL, MEDIUM, <<>>)>>)]
      [] c = "bad" ->
            [self |-> [self EXCEPT !.results =
                          <<create_result(<<"check_c", "", "">>, PASS, LOW, <<>>)>>],
             out |-> Raised("RuntimeError")]

\* The classes except Exception (151) catches: every exception a
\* run_diagnostics of the model raises is one of them.
Exception == {"RuntimeError", "TypeError", "AttributeError", "ValueError"}

\* execute with self.results.append(error_result) in place of line 163.
execute_finish_keeping_results(c, run) ==
    [run.self EXCEPT
        !.results = IF ~run.out.raised THEN run.out.results
                    ELSE Append(@, execution_error_result(Name(c), run.out.exc)),
        !.fault = run.out.exc,
        !.end_time = TRUE]

\* DiagnosticComponent.execute (129-170) from line 148 on, for what
\* run_diagnostics did (run): the fields of c afterwards; what execute returns
\* is their results, unless an exception escaped.
execute_finish(c, run) ==
    [run.self EXCEPT
        !.results = IF ~run.out.raised THEN run.out.results
                    ELSE IF run.out.exc \in Exception
                    THEN <<execution_error_result(Name(c), run.out.exc)>>
                    ELSE @,
        !.fault = run.out.exc,
        !.escaped = IF run.out.raised /\ run.out.exc \notin Exception
                    THEN run.out.exc ELSE "",
        !.end_time = TRUE]

\* execute that puts what the call produced after the results the component
\* already held.
execute_accumulating(c, self, dir, fls) ==
    CHOOSE after \in
        {[done EXCEPT !.results = self.results \o @] :
             done \in {execute_finish(c, run) :
                 run \in {run_diagnostics_of(c, [self EXCEPT !.start_time = TRUE,
                                                             !.results = <<>>],
                                             dir, fls)}}} : TRUE

\* DiagnosticComponent.execute (129-170) of component c with the fields self,
\* on the workflows directory (dir, fls).
execute(c, self, dir, fls) ==
    CHOOSE after \in
        {execute_finish(c, run) :
             run \in {run_diagnostics_of(c, [self EXCEPT !.start_time = TRUE,
                                                         !.results = <<>>],
                                         dir, fls)}} : TRUE

\* DiagnosticComponent.get_summary (172-200) of a component named name with the
\* fields self.
get_summary(name, self) ==
    IF ~self.start_time THEN [status |-> "not_executed"]
    ELSE [component_name |-> name,
          total_results |-> Len(self.results),
          pass_count |-> Len(SelectSeq(self.results, LAMBDA r : r.status = PASS)),
          fail_count |-> Len(SelectSeq(self.results, LAMBDA r : r.status = FAIL)),
          warning_count |->
              Len(SelectSeq(self.results, LAMBDA r : r.status = WARNING)),
          status |-> IF self.end_time THEN "completed" ELSE "running"]

\* ----------------------------------------------------------- orchestrator.py
\* register_component (37-45)
RegisterComponent(c) ==
    /\ pc = "idle"
    /\ Len(components) < MaxComponents
    /\ components' = Append(components, c)
    /\ error' = ""
    /\ UNCHANGED <<fsVars, toolVars, component, last, changed, current_session, origin,
                   calls, pc, idx, now, sessions, runs>>

\* start_session (47-65): the session id is fresh (uuid4).
StartSession ==
    /\ pc = "idle"
    /\ sessions < MaxSessions
    /\ sessions' = sessions + 1
    /\ current_session' = [session_id |-> sessions + 1, start_time |-> now,
                           end_time |-> NoTime, diagnostic_results |-> <<>>]
    /\ origin' = <<>>
    /\ now' = now + 1
    /\ error' = ""
    /\ UNCHANGED <<fsVars, toolVars, component, last, changed, components, calls, pc,
                   idx, runs>>

\* run_diagnostics without the check of lines 77-78.
RunDiagnosticsNoSession_unchecked ==
    /\ pc = "idle"
    /\ current_session = NoSession
    /\ pc' = "running"
    /\ idx' = 1
    /\ calls' = <<>>
    /\ error' = ""
    /\ UNCHANGED <<fsVars, toolVars, component, last, changed, components,
                   current_session, origin, now, sessions, runs>>

\* run_diagnostics (77-78): no active session.
RunDiagnosticsNoSession ==
    /\ pc = "idle"
    /\ current_session = NoSession
    /\ error' = "RuntimeError"
    /\ UNCHANGED <<fsVars, toolVars, component, last, changed, components,
                   current_session, origin, calls, pc, idx, now, sessions, runs>>

\* run_diagnostics (77-80): with a session, the loop starts.
RunDiagnosticsBegin ==
    /\ pc = "idle"
    /\ current_session # NoSession
    /\ runs < MaxRuns
    /\ runs' = runs + 1
    /\ pc' = "running"
    /\ idx' = 1
    /\ calls' = <<>>
    /\ error' = ""
    /\ UNCHANGED <<fsVars, toolVars, component, last, changed, components,
                   current_session, origin, now, sessions>>

\* add_result with an assignment in place of the append of line 205.
add_results_replacing(session, rs) ==
    [session EXCEPT !.diagnostic_results = rs]

\* DiagnosticSession.add_result (models.py 203-205) for each of rs.
add_results(session, rs) ==
    [session EXCEPT !.diagnostic_results = @ \o rs]

\* The result the orchestrator makes of an exception (97-104).
orchestrator_error_result(name) ==
    DiagnosticResult(<<"execution", name, "">>, FAIL, HIGH, <<>>)

\* The loop of lines 88-89 left after the first result.
turn_results_first_only(name, after) ==
    IF after.escaped # "" THEN <<orchestrator_error_result(name)>>
    ELSE SubSeq(after.results, 1, 1)

\* What one turn of the loop appends to the session (85-105): the results
\* execute returned, or the result of except when an exception came out of it.
turn_results(name, after) ==
    IF after.escaped # "" THEN <<orchestrator_error_result(name)>>
    ELSE after.results

\* The record of a turn: the position, whether the component failed, what its
\* execute returned.
Turn(pos, failed, returned) ==
    [pos |-> pos, failed |-> failed, returned |-> returned]

Origins(rs, pos, by) ==
    [i \in DOMAIN rs |-> [pos |-> pos, run |-> runs, by |-> by]]

\* A turn that puts the results in front of the session's results.
RunComponent_in_front ==
    /\ pc = "running"
    /\ idx <= Len(components)
    /\ components[idx] # "ext"
    /\ \E after \in {execute(components[idx], component[components[idx]],
                             dirExists, files)} :
           /\ component' = [component EXCEPT ![components[idx]] = after]
           /\ current_session' =
                  [current_session EXCEPT !.diagnostic_results = after.results \o @]
           /\ origin' = Origins(after.results, idx, "component") \o origin
           /\ calls' = Append(calls, Turn(idx, after.fault # "", after.results))
    /\ idx' = idx + 1
    /\ UNCHANGED <<fsVars, toolVars, last, changed, components, pc, now, error,
                   sessions, runs>>

\* One turn of the loop of run_diagnostics (82-105) for a component with
\* DiagnosticComponent.execute.
RunComponent ==
    /\ pc = "running"
    /\ idx <= Len(components)
    /\ components[idx] # "ext"
    /\ \E after \in {execute(components[idx], component[components[idx]],
                             dirExists, files)} :
         \E appended \in {turn_results(Name(components[idx]), after)} :
           /\ component' = [component EXCEPT ![components[idx]] = after]
           /\ current_session' = add_results(current_session, appended)
           /\ origin' = origin \o Origins(appended, idx,
                                IF after.escaped # "" THEN "orchestrator"
                                ELSE "component")
           /\ calls' = Append(calls, Turn(idx, after.fault # "", after.results))
    /\ idx' = idx + 1
    /\ UNCHANGED <<fsVars, toolVars, last, changed, components, pc, now, error,
                   sessions, runs>>

\* A turn without the except of lines 93-105: the exception leaves
\* run_diagnostics.
RunForeignComponent_uncaught ==
    /\ pc = "running"
    /\ idx <= Len(components)
    /\ components[idx] = "ext"
    /\ \E outcome \in {"Exception", "TypeError"} : error' = outcome
    /\ pc' = "idle"
    /\ UNCHANGED <<fsVars, toolVars, component, last, changed, components,
                   current_session, origin, calls, idx, now, sessions, runs>>

\* One turn of the loop (82-105) for a component whose own execute raises, or
\* returns None, which for result in results cannot iterate: except (93-105).
RunForeignComponent ==
    /\ pc = "running"
    /\ idx <= Len(components)
    /\ components[idx] = "ext"
    /\ \E outcome \in {"raises", "returns_none"} :
         \E appended \in {<<orchestrator_error_result(Name(components[idx]))>>} :
          /\ current_session' = add_results(current_session, appended)
          /\ origin' = origin \o Origins(appended, idx, "orchestrator")
          /\ calls' = Append(calls, Turn(idx, TRUE, <<>>))
    /\ idx' = idx + 1
    /\ UNCHANGED <<fsVars, toolVars, component, last, changed, components, pc, now,
                   error, sessions, runs>>

\* run_diagnostics (107-111): the session is completed and returned.
RunDiagnosticsEnd ==
    /\ pc = "running"
    /\ idx > Len(components)
    /\ current_session' = [current_session EXCEPT !.end_time = now]
    /\ now' = now + 1
    /\ pc' = "idle"
    /\ UNCHANGED <<fsVars, toolVars, component, last, changed, components, origin,
                   calls, idx, error, sessions, runs>>

\* get_session_summary (113-136)
get_session_summary ==
    IF current_session = NoSession THEN [status |-> "no_active_session"]
    ELSE [session_id |-> current_session.session_id,
          total_results |-> Len(current_session.diagnostic_results),
          critical_issues |->
              Len(SelectSeq(current_session.diagnostic_results,
                            LAMBDA r : r.severity = CRITICAL)),
          failed_tests |->
              Len(SelectSeq(current_session.diagnostic_results,
                            LAMBDA r : r.status = FAIL)),
          components_executed |-> Len(components),
          status |-> IF current_session.end_time # NoTime THEN "completed"
                     ELSE "running"]

Next ==
    \/ \E c \in Comps : RegisterComponent(c)
    \/ StartSession
    \/ RunDiagnosticsNoSession
    \/ RunDiagnosticsBegin
    \/ RunComponent
    \/ RunForeignComponent
    \/ RunDiagnosticsEnd

Spec == Init /\ [][Next]_vars

\* The loop of run_diagnostics is sequential code: once begun it goes on.
FairSpec == Spec /\ WF_vars(RunComponent) /\ WF_vars(RunForeignComponent)
                 /\ WF_vars(RunDiagnosticsEnd)

\* ------------------------------------------- the engine used on its own
\* (examples/workflow_inspector_example.py, tests/test_workflow_inspector.py)
EngineInit ==
    /\ dirExists \in BOOLEAN
    /\ files \in [Range(FileNames) -> DocIds \cup {NoFile}]
    /\ dirExists \/ \A f \in Range(FileNames) : files[f] = NoFile
    /\ Fresh
    /\ NoTools

\* inspector.execute()
Execute ==
    /\ runs < MaxRuns
    /\ runs' = runs + 1
    /\ \E after \in {execute("wi1", component["wi1"], dirExists, files)} :
          /\ component' = [component EXCEPT !["wi1"] = after]
          /\ last' = [op |-> "execute",
                      out |-> IF after.escaped # "" THEN Raised(after.escaped)
                              ELSE Returned(after.results)]
    /\ changed' = FALSE
    /\ UNCHANGED <<fsVars, toolVars, orchVars>>

\* inspector.run_diagnostics(), called directly
RunDiagnostics ==
    /\ runs < MaxRuns
    /\ runs' = runs + 1
    /\ \E r \in {inspector_run(dirExists, files, component["wi1"])} :
          /\ component' = [component EXCEPT
                              !["wi1"].workflow_files = r.workflow_files,
                              !["wi1"].parsed_workflows = r.parsed_workflows]
          /\ last' = [op |-> "run_diagnostics", out |-> r.out]
    /\ changed' = FALSE
    /\ UNCHANGED <<fsVars, toolVars, orchVars>>

\* The environment writes, removes a workflow file, or removes or creates the
\* workflows directory.
WriteFile(f, id) ==
    /\ dirExists
    /\ edits < MaxEdits
    /\ files[f] # id
    /\ files' = [files EXCEPT ![f] = id]
    /\ edits' = edits + 1
    /\ changed' = TRUE
    /\ UNCHANGED <<dirExists, component, last, orchVars, runs, toolVars>>

RemoveFile(f) ==
    /\ edits < MaxEdits
    /\ files[f] # NoFile
    /\ files' = [files EXCEPT ![f] = NoFile]
    /\ edits' = edits + 1
    /\ changed' = TRUE
    /\ UNCHANGED <<dirExists, component, last, orchVars, runs, toolVars>>

RemoveDirectory ==
    /\ dirExists
    /\ edits < MaxEdits
    /\ dirExists' = FALSE
    /\ files' = [f \in Range(FileNames) |-> NoFile]
    /\ edits' = edits + 1
    /\ changed' = TRUE
    /\ UNCHANGED <<component, last, orchVars, runs, toolVars>>

MakeDirectory ==
    /\ ~dirExists
    /\ edits < MaxEdits
    /\ dirExists' = TRUE
    /\ edits' = edits + 1
    /\ changed' = TRUE
    /\ UNCHANGED <<files, component, last, orchVars, runs, toolVars>>

EngineNext ==
    \/ Execute
    \/ RunDiagnostics
    \/ \E f \in Range(FileNames), id \in DocIds : WriteFile(f, id)
    \/ \E f \in Range(FileNames) : RemoveFile(f)
    \/ RemoveDirectory
    \/ MakeDirectory

EngineSpec == EngineInit /\ [][EngineNext]_vars

\* ------------------------------------- the engine on one repository at a time
\* (tests/test_workflow_inspector.py: each test writes its workflow file and
\* runs the inspector on it)
RuleDocIds ==
    DocIds \cup {"noperm", "jobperm", "otherjob", "twoperm", "devbranch",
                 "pushnull", "branchstr", "twice", "nojobs", "thirdparty",
                 "jobpermstr"}

RuleInit ==
    /\ dirExists = TRUE
    /\ \E id \in RuleDocIds, other \in {NoFile, "ci"} :
          files = ("pages.yml" :> id) @@ ("ci.yaml" :> other)
    /\ Fresh
    /\ NoTools

RuleNext ==
    \/ Execute
    \/ RunDiagnostics

RuleSpec == RuleInit /\ [][RuleNext]_vars

\* ------------------------------- the orchestrator on each of the repositories
\* The orchestrator after construction, on one of the repositories or on one
\* whose pages.yml uses an outdated action.
SessionInit ==
    /\ \E r \in Repositories
                \cup {[dir |-> TRUE, pages |-> "devbranch", ci |-> other] :
                          other \in {NoFile, "ci"}} :
          /\ dirExists = r.dir
          /\ files = ("pages.yml" :> r.pages) @@ ("ci.yaml" :> r.ci)
    /\ Fresh
    /\ NoTools

SessionSpec == SessionInit /\ [][Next]_vars

\* ------------------------------------------------------------------- cli.py
\* The configuration files --config can name: no option, a path that does not
\* exist, a file with settings, an empty file, a file that is not YAML, a file
\* that holds one word, a file with logging.level: TRACE, a file with a
\* logging.format that logging.Formatter rejects.
ConfigKinds == {"none", "missing", "settings", "empty", "yamlerror", "scalar",
                "badlevel", "badformat"}

\* load_config (config.py 360-384) and TroubleshootingConfig.__init__ (71-90):
\* the exception raised, "" if the configuration is constructed.  A path that
\* does not exist is skipped (83); yaml.safe_load raises on a broken file
\* (101, re-raised at 109); _deep_update calls items() on what the file holds
\* (179); validate_config raises ValueError on an unknown level (196).
load_config(config) ==
    CASE config = "yamlerror" -> "YAMLError"
      [] config = "scalar" -> "AttributeError"
      [] config = "badlevel" -> "ValueError"
      [] OTHER -> ""

\* setup_logging (config.py 308-357): logging.Formatter raises on a format it
\* cannot use (328); a log file that cannot be opened is caught (354).
setup_logging(config) ==
    IF config = "badformat" THEN "ValueError" ELSE ""

\* The exit status while main has not returned (sys.exit(main()), 109-110).
NoExit == -1

\* main (21-68): parse_args accepted the command line; a fresh orchestrator
\* without components (83) is what main goes on to create.
CliInit ==
    /\ dirExists = TRUE
    /\ files = ("pages.yml" :> "valid") @@ ("ci.yaml" :> NoFile)
    /\ Fresh
    /\ retry = NoRetry
    /\ arg = NoArg
    /\ \E command \in {"diagnose", "repair", "validate"}, config \in ConfigKinds,
          verbose \in BOOLEAN, output \in {"none", "writable", "unwritable"} :
          cli = [pc |-> "start", command |-> command, config |-> config,
                 verbose |-> verbose, output |-> output, exit |-> NoExit]

\* main (70-83): configuration, logging, orchestrator; an exception goes to
\* except (102-104) and main returns 1.
CliSetup ==
    /\ cli.pc = "start"
    /\ \E raised \in {IF load_config(cli.config) # "" THEN load_config(cli.config)
                       ELSE setup_logging(cli.config)} :
          /\ error' = raised
          /\ cli' = IF raised # "" THEN [cli EXCEPT !.pc = "exited", !.exit = 1]
                    ELSE [cli EXCEPT !.pc = "ready"]
    /\ UNCHANGED <<fsVars, retry, arg, component, last, changed, components,
                   current_session, origin, calls, pc, idx, now, sessions, runs>>

\* main (86-88): diagnose calls start_session, then run_diagnostics, whose
\* loop has no component to go through.
CliDiagnose ==
    /\ cli.pc = "ready"
    /\ cli.command = "diagnose"
    /\ \/ current_session = NoSession /\ StartSession
       \/ current_session # NoSession /\ current_session.end_time = NoTime
          /\ RunDiagnosticsBegin
       \/ RunDiagnosticsEnd

\* main (90-96, 106): the session goes to the file of --output or to the
\* console; open() of a path that cannot be written raises, except (102-104).
CliOutput ==
    /\ cli.pc = "ready"
    /\ cli.command = "diagnose"
    /\ pc = "idle"
    /\ current_session.end_time # NoTime
    /\ error' = IF cli.output = "unwritable" THEN "OSError" ELSE ""
    /\ cli' = [cli EXCEPT !.pc = "exited",
                          !.exit = IF cli.output = "unwritable" THEN 1 ELSE 0]
    /\ UNCHANGED <<fsVars, retry, arg, component, last, changed, components,
                   current_session, origin, calls, pc, idx, now, sessions, runs>>

\* main (98-100): repair and validate.
CliOtherCommand ==
    /\ cli.pc = "ready"
    /\ cli.command # "diagnose"
    /\ cli' = [cli EXCEPT !.pc = "exited", !.exit = 1]
    /\ UNCHANGED <<fsVars, retry, arg, component, last, changed, components,
                   current_session, origin, calls, pc, idx, now, error, sessions,
                   runs>>

CliNext ==
    \/ CliSetup
    \/ CliDiagnose
    \/ CliOutput
    \/ CliOtherCommand

CliSpec == CliInit /\ [][CliNext]_vars

\* ------------------------------------------- one check called on its own
\* (each pass is a method that takes the file name and the loaded definition:
\* workflow_inspector.py 233, 314, 389, 470)
TriggerPool == {"push", "workflow_dispatch", "pull_request"}

\* The orders in which the names of a set can be written, up to MaxTriggers.
MaxTriggers == 3
TriggerLists ==
    {s \in UNION {[1..n -> TriggerPool] : n \in 0..MaxTriggers} :
        \A i, j \in DOMAIN s : i # j => s[i] # s[j]}

\* The forms of a declaration of the names ns: one word, a list of words, a
\* mapping with {} under each name, a mapping with nothing under each name.
Forms(ns) == (IF Len(ns) = 1 THEN {"str"} ELSE {}) \cup {"list", "map", "mapnull"}

OnForm(ns, form) ==
    CASE form = "str" -> OnStr(ns[1])
      [] form = "list" -> OnList(ns)
      [] form = "map" -> OnMap(ns, PushMap(BranchesAbsent))
      [] form = "mapnull" -> OnMap(ns, PushNull)

\* A publish workflow that declares the triggers ns in the given form, under
\* the key on written with quotes (key = "on") or without (what YAML decodes
\* to the key True).
TriggerDoc(ns, form, key) ==
    Workflow(FullPermissions,
             IF key = "on" THEN OnForm(ns, form) ELSE OnAbsent,
             IF key = "on" THEN OnAbsent ELSE OnForm(ns, form),
             JobsMap(<<NamedJob("deploy", Job(PermAbsent, FullDeploySteps))>>))

TriggerInit ==
    /\ dirExists = TRUE
    /\ files = ("pages.yml" :> NoFile) @@ ("ci.yaml" :> NoFile)
    /\ Fresh
    /\ cli = NoCli
    /\ retry = NoRetry
    /\ \E ns \in TriggerLists, key \in {"on", "true"} :
          \E form \in Forms(ns) : arg = [form |-> form, names |-> ns, key |-> key]

\* inspector._validate_workflow_triggers("pages.yml", definition)
ValidateTriggers ==
    /\ last = NoCall
    /\ last' = [op |-> "validate_workflow_triggers",
                out |-> validate_workflow_triggers(
                            "pages.yml", TriggerDoc(arg.names, arg.form, arg.key))]
    /\ UNCHANGED <<fsVars, orchVars, toolVars, component, changed, runs>>

TriggerNext == ValidateTriggers

TriggerSpec == TriggerInit /\ [][TriggerNext]_vars

\* The version tags a step can carry: v1, v2, v3, v4, v10, v2.1, V4.
Tags == {V1, V2, V3, V4, V10, <<"v", "2", ".", "1">>, <<"V", "4">>}

\* The steps of a job that uses the actions of the table at the tags of uses
\* (NotUsed: no such step), in the order of the table.
RECURSIVE TaggedSteps(_, _)
TaggedSteps(uses, order) ==
    IF order = <<>> THEN <<>>
    ELSE (IF uses[Head(order)] = NotUsed THEN <<>>
          ELSE <<Step(Uses(Head(order), uses[Head(order)]))>>)
         \o TaggedSteps(uses, Tail(order))

StepsDoc(uses) ==
    Workflow(FullPermissions, PushMainAndDispatch, OnAbsent,
             JobsMap(<<NamedJob("deploy",
                          Job(PermAbsent,
                              StepsList(TaggedSteps(uses, PagesActionOrder))))>>))

StepsInit ==
    /\ dirExists = TRUE
    /\ files = ("pages.yml" :> NoFile) @@ ("ci.yaml" :> NoFile)
    /\ Fresh
    /\ cli = NoCli
    /\ retry = NoRetry
    /\ \E uses \in [Range(PagesActionOrder) -> Tags \cup {NotUsed}] :
          arg = [form |-> "steps", uses |-> uses]

\* inspector._validate_workflow_steps("pages.yml", definition)
ValidateSteps ==
    /\ last = NoCall
    /\ last' = [op |-> "validate_workflow_steps",
                out |-> validate_workflow_steps("pages.yml", StepsDoc(arg.uses))]
    /\ UNCHANGED <<fsVars, orchVars, toolVars, component, changed, runs>>

StepsNext == ValidateSteps

StepsSpec == StepsInit /\ [][StepsNext]_vars

\* The jobs a workflow can declare: a name, a permissions mapping (none, one
\* that grants pages: write, one that sets pages: read, the full one) and
\* steps that publish or only check out.
MaxJobs == 3
JobNames == {"deploy", "github-pages", "lint"}
JobPermissions ==
    {PermAbsent, PermMap("pages" :> "write"), PermMap("pages" :> "read"),
     FullPermissions}
JobSteps == {FullDeploySteps, StepsList(<<Step(Uses("actions/checkout", V4))>>)}

\* The job mappings of up to MaxJobs jobs, in the order they are written.
JobLists ==
    {js \in UNION {[1..n -> {NamedJob(name, Job(perms, steps)) :
                                 name \in JobNames, perms \in JobPermissions,
                                 steps \in JobSteps}] : n \in 0..MaxJobs} :
        \A i, j \in DOMAIN js : i # j => js[i].name # js[j].name}

\* A workflow that grants contents: read and id-token: write itself and
\* declares the jobs js.
JobsDoc(js) ==
    Workflow(PermMap(("contents" :> "read") @@ ("id-token" :> "write")),
             PushMainAndDispatch, OnAbsent, JobsMap(js))

JobOrderInit ==
    /\ dirExists = TRUE
    /\ files = ("pages.yml" :> NoFile) @@ ("ci.yaml" :> NoFile)
    /\ Fresh
    /\ cli = NoCli
    /\ retry = NoRetry
    /\ \E js \in JobLists : arg = [form |-> "jobs", jobs |-> js]

\* inspector._validate_workflow_permissions("pages.yml", definition)
ValidatePermissions ==
    /\ last = NoCall
    /\ last' = [op |-> "validate_workflow_permissions",
                out |-> validate_workflow_permissions("pages.yml", JobsDoc(arg.jobs))]
    /\ UNCHANGED <<fsVars, orchVars, toolVars, component, changed, runs>>

JobOrderNext == ValidatePermissions

JobOrderSpec == JobOrderInit /\ [][JobOrderNext]_vars

\* ------------------------------------------- base.py: TestingComponent
MaxRetries == 3

\* What one invocation of the operation can do: return, raise an Exception,
\* raise a BaseException that is not an Exception.
Exceptions == {"ConnectionError", "TimeoutError"}
Outcomes == {"ok", "KeyboardInterrupt"} \cup Exceptions

\* range(retries + 2) in place of line 299.
attempts_one_more(retries) == retries + 2

\* for attempt in range(retries + 1) (299): the number of turns of the loop.
attempts(retries) == retries + 1

\* TestingComponent.__init__ (262-268): test_config, no call in progress.
\* invocations is what each invocation of the operation did, in order.
RetryInit ==
    /\ dirExists = TRUE
    /\ files = ("pages.yml" :> NoFile) @@ ("ci.yaml" :> NoFile)
    /\ Fresh
    /\ cli = NoCli
    /\ arg = NoArg
    /\ retry = [pc |-> "idle", retries |-> 3, retry_delay |-> "1.0", attempt |-> 0,
                invocations |-> <<>>, result |-> 0, exc |-> ""]

\* configure_testing(retries=r, retry_delay=d) (270-278); a negative delay
\* makes time.sleep raise ValueError.
ConfigureTesting ==
    /\ retry.pc = "idle"
    /\ \E r \in 0..MaxRetries, d \in {"1.0", "negative"} :
          retry' = [retry EXCEPT !.retries = r, !.retry_delay = d]
    /\ UNCHANGED <<fsVars, orchVars, component, last, changed, runs, cli, arg>>

\* One turn of the loop of _execute_with_retry (299-309), the first one with
\* lines 294-297 before it, the last one with line 311 after it.  The result
\* of the n-th invocation is n.
Attempt ==
    /\ retry.pc \in {"idle", "loop"}
    /\ retry.attempt < attempts(retry.retries)
    /\ \E o \in Outcomes :
          LET invocations == Append(retry.invocations, o) IN
          retry' =
              IF o = "ok"
              THEN [retry EXCEPT !.pc = "returned", !.invocations = invocations,
                                 !.result = Len(invocations)]
              ELSE IF o \notin Exceptions
              THEN [retry EXCEPT !.pc = "raised", !.invocations = invocations,
                                 !.exc = o]
              ELSE IF retry.attempt < retry.retries /\ retry.retry_delay = "negative"
              THEN [retry EXCEPT !.pc = "raised", !.invocations = invocations,
                                 !.exc = "ValueError"]
              ELSE IF retry.attempt + 1 < attempts(retry.retries)
              THEN [retry EXCEPT !.pc = "loop", !.invocations = invocations,
                                 !.attempt = retry.attempt + 1]
              ELSE [retry EXCEPT !.pc = "raised", !.invocations = invocations,
                                 !.attempt = retry.attempt + 1, !.exc = o]
    /\ UNCHANGED <<fsVars, orchVars, component, last, changed, runs, cli, arg>>

RetryNext ==
    \/ ConfigureTesting
    \/ Attempt

RetrySpec == RetryInit /\ [][RetryNext]_vars

\* ================================================================ properties
\* (check name, status, severity) of each result
Triples(rs) == [i \in DOMAIN rs |-> <<rs[i].test_name, rs[i].status, rs[i].severity>>]

SameMultiset(a, b) ==
    /\ Len(a) = Len(b)
    /\ \A i \in DOMAIN a : SeqCount(a, a[i]) = SeqCount(b, a[i])

\* The state right after a call on the engine.
AfterRun == last.op # "none" /\ ~changed

HasWorkflowFile == dirExists /\ \E f \in Range(FileNames) : files[f] # NoFile

\* C1: two runs in a row by the same WorkflowInspector instance, both through
\* execute or both through run_diagnostics, on a directory that was not changed
\* in between and holds at least one workflow file, produce the same multiset
\* of (check name, status, severity).
C1_SecondRunSameResults ==
    [][(/\ runs' = runs + 1
        /\ AfterRun
        /\ last'.op = last.op
        /\ HasWorkflowFile)
       => /\ last'.out.raised = last.out.raised
          /\ SameMultiset(Triples(last'.out.results), Triples(last.out.results))]_vars

\* C2: whenever the run_diagnostics of a component failed inside execute, no
\* exception left execute and the component's results are exactly one result
\* "<name>_execution", FAIL and HIGH, that carries the exception type: what
\* run_diagnostics had put into the results before is gone.
C2_ExecuteTurnsFailureIntoOneResult ==
    \A c \in Comps :
        component[c].fault # ""
        => /\ component[c].escaped = ""
           /\ component[c].end_time
           /\ component[c].results =
                  <<DiagnosticResult(<<"execution", Name(c), "">>, FAIL, HIGH,
                       <<<<"exception_type", component[c].fault, "">>>>)>>

\* A checker that had put a result into self.results failed inside execute.
C2_Witness ==
    /\ component["bad"].fault = "RuntimeError"
    /\ Len(component["bad"].results) = 1

\* The results position p contributed to the session in the current run.
RECURSIVE Contribution(_, _, _)
Contribution(rs, os, p) ==
    IF rs = <<>> THEN <<>>
    ELSE (IF Head(os).pos = p /\ Head(os).run = runs THEN <<Head(rs)>> ELSE <<>>)
         \o Contribution(Tail(rs), Tail(os), p)

ContributionOf(p) == Contribution(current_session.diagnostic_results, origin, p)

IsExecutionFailure(r, name) ==
    /\ r.test_name = <<"execution", name, "">>
    /\ r.status = FAIL
    /\ r.severity = HIGH

\* C3: when run_diagnostics returns, every position of the registry was
\* executed exactly once in this call, each component that failed contributed
\* exactly one "<name>_execution" FAIL result to the session, each other
\* component contributed all the results its execute returned, and the
\* session's end time is set.
C3_EveryComponentOnce ==
    [][(pc = "running" /\ pc' = "idle")
       => /\ \A p \in DOMAIN components :
                /\ Cardinality({k \in DOMAIN calls : calls[k].pos = p}) = 1
                /\ \A k \in DOMAIN calls :
                      calls[k].pos = p
                      => IF calls[k].failed
                         THEN /\ Len(ContributionOf(p)) = 1
                              /\ IsExecutionFailure(ContributionOf(p)[1],
                                                    Name(components[p]))
                         ELSE ContributionOf(p) = calls[k].returned
          /\ \A k \in DOMAIN calls : calls[k].pos \in DOMAIN components
          /\ current_session'.end_time # NoTime
          /\ error' = ""]_vars

\* A run over a failing and a non-failing component has returned.
C3_Witness ==
    /\ pc = "idle"
    /\ current_session.end_time # NoTime
    /\ Len(calls) = 2
    /\ \E k \in DOMAIN calls : calls[k].failed
    /\ \E k \in DOMAIN calls : ~calls[k].failed /\ Len(calls[k].returned) > 1

C5_RunTerminatesWithoutRaising ==
    /\ [][pc = "running" => error' = ""]_vars
    /\ [][(pc = "running" /\ idx <= Len(components) /\ components[idx] = "ext")
          => /\ current_session'.diagnostic_results =
                    Append(current_session.diagnostic_results,
                           DiagnosticResult(<<"execution", "External", "">>,
                                            FAIL, HIGH, <<>>))
             /\ idx' = idx + 1
             /\ pc' = "running"]_vars
    /\ (pc = "running") ~> (pc = "idle" /\ current_session.end_time # NoTime)

\* A run in which a foreign component failed went on to a later component and
\* returned.
C5_Witness ==
    /\ pc = "idle"
    /\ current_session.end_time # NoTime
    /\ \E i, j \in DOMAIN origin :
          /\ origin[i].by = "orchestrator"
          /\ origin[j].run = origin[i].run
          /\ origin[j].pos > origin[i].pos

\* C6: a run_diagnostics call while no session is active ends with the
\* precondition error, executes no component and changes nothing of the
\* orchestrator, its components or its session.
C6_NoSessionNoRun ==
    [][(/\ current_session = NoSession
        /\ current_session' = NoSession
        /\ components' = components)
       => /\ error' = "RuntimeError"
          /\ component' = component
          /\ pc' = "idle"
          /\ <<origin, calls, idx, now, sessions, runs>>'
                 = <<origin, calls, idx, now, sessions, runs>>]_vars

\* run_diagnostics was refused while components were registered.
C6_Witness ==
    /\ error = "RuntimeError"
    /\ current_session = NoSession
    /\ components # <<>>
    /\ \A c \in Comps : ~component[c].start_time

\* C7: a run while the workflows directory is absent returns exactly one
\* result, workflows_directory_exists with FAIL and HIGH, and nothing else.
C7_AbsentDirectoryOneResult ==
    (AfterRun /\ ~dirExists)
    => last.out = Returned(<<DiagnosticResult(<<"workflows_directory_exists", "", "">>,
                                              FAIL, HIGH, <<>>)>>)

\* An instance that had found files before ran on an absent directory.
C7_Witness ==
    /\ AfterRun
    /\ ~dirExists
    /\ component["wi1"].workflow_files # <<>>

\* The parse check of file f as the directory stands.
ParseStatus(f) == parse_one(files, <<>>, f).result.status

Retained(f) ==
    \E i \in DOMAIN component["wi1"].parsed_workflows :
        component["wi1"].parsed_workflows[i].name = f

\* C8: after a run, a file of the directory whose parse check is FAIL is not
\* among the retained workflows, and the output of the run holds the parse
\* FAIL result of the file and no other result for it.
C8_FailedParseNotRetained ==
    (AfterRun /\ dirExists)
    => \A f \in Range(FileNames) :
          (files[f] # NoFile /\ ParseStatus(f) = FAIL)
          => /\ ~Retained(f)
             /\ \E i \in DOMAIN last.out.results :
                   /\ last.out.results[i].test_name = <<"parse_workflow", f, "">>
                   /\ last.out.results[i].status = FAIL
             /\ \A i \in DOMAIN last.out.results :
                   last.out.results[i].test_name[2] = f
                   => last.out.results[i].test_name[1] = "parse_workflow"

\* What a new instance produces through op on the directory with the files fls.
OutputOf(op, fls) ==
    IF op = "execute"
    THEN Returned(execute("wi1", NewComponent, TRUE, fls).results)
    ELSE inspector_run(TRUE, fls, NewComponent).out

ResultsFor(f, out) == {r \in Range(out.results) : r.test_name[2] = f}

\* C9: for two files F and G of the directory, the results for F of a run by a
\* new instance are the same whatever G holds.
C9_FilesIndependent ==
    (AfterRun /\ runs = 1 /\ dirExists)
    => \A F, G \in Range(FileNames) :
          (F # G /\ files[F] # NoFile /\ files[G] # NoFile)
          => \A id \in DocIds :
                ResultsFor(F, last.out)
                    = ResultsFor(F, OutputOf(last.op, [files EXCEPT ![G] = id]))

\* C10: for every retained workflow that is a mapping, none of the permissions,
\* triggers, steps and deployment passes raises.
C10_PassesNeverRaise ==
    \A i \in DOMAIN component["wi1"].parsed_workflows :
        Doc(component["wi1"].parsed_workflows[i].doc).k = "map"
        => /\ ~validate_workflow_permissions(
                   component["wi1"].parsed_workflows[i].name,
                   Doc(component["wi1"].parsed_workflows[i].doc)).raised
           /\ ~validate_workflow_triggers(
                   component["wi1"].parsed_workflows[i].name,
                   Doc(component["wi1"].parsed_workflows[i].doc)).raised
           /\ ~validate_workflow_steps(
                   component["wi1"].parsed_workflows[i].name,
                   Doc(component["wi1"].parsed_workflows[i].doc)).raised
           /\ ~validate_pages_deployment(
                   component["wi1"].parsed_workflows[i].name,
                   Doc(component["wi1"].parsed_workflows[i].doc)).raised

\* The checks the loop of run_diagnostics (89-93) makes for one file.
PerFileChecks ==
    {"workflow_permissions", "workflow_triggers", "workflow_steps",
     "pages_deployment"}

\* The per-file validation results and the overall assessment in an output.
DerivedResults(out) ==
    {r \in Range(out.results) :
        r.test_name[1] \in PerFileChecks \cup {"overall_workflow_assessment"}}

\* C11: after any sequence of runs and changes of the directory, a run emits
\* per-file validation results only for files that exist and parse
\* successfully now, and its per-file results and overall assessment are those
\* a new instance derives from the present content of the directory.
C11_OnlyPresentFiles ==
    (AfterRun /\ dirExists)
    => /\ \A r \in Range(last.out.results) :
             r.test_name[1] \in PerFileChecks
             => /\ files[r.test_name[2]] # NoFile
                /\ ParseStatus(r.test_name[2]) = PASS
       /\ DerivedResults(last.out) = DerivedResults(OutputOf(last.op, files))

\* C12: when run_diagnostics has returned, no two results that one
\* run_diagnostics call appended to the session have the same check name.
C12_CheckNamesUnique ==
    (pc = "idle" /\ Len(origin) = Len(current_session.diagnostic_results))
    => \A i, j \in DOMAIN origin :
          (i # j /\ origin[i].run = origin[j].run)
          => current_session.diagnostic_results[i].test_name
                 # current_session.diagnostic_results[j].test_name

IsPrefix(s, t) == Len(s) <= Len(t) /\ s = SubSeq(t, 1, Len(s))

\* C13: on every step of the orchestrator that leaves the session in place,
\* the session's result sequence before the step is a prefix of its result
\* sequence after the step.
C13_AppendOnly ==
    [][current_session'.session_id = current_session.session_id
       => IsPrefix(current_session.diagnostic_results,
                   current_session'.diagnostic_results)]_vars

\* A second run_diagnostics call has appended behind the results of the first.
C13_Witness ==
    \E i, j \in DOMAIN origin :
        /\ i < j
        /\ origin[i].run < origin[j].run
        /\ Len(current_session.diagnostic_results) = Len(origin)

\* ------------------------------------------ what a workflow document declares
\* The jobs of a document, and the action references of the steps of a job.
JobsIn(cfg) == IF cfg.k = "map" /\ cfg.jobs.k = "map" THEN cfg.jobs.v ELSE <<>>

References(job) ==
    {t.uses : t \in {u \in Range(IF job.cfg.steps.k = "list"
                                 THEN job.cfg.steps.v ELSE <<>>) :
                        u.k = "map" /\ u.uses.k = "str"}}

\* A job is publish-related by its name or by a step that references an action
\* of the table of known actions.
PublishRelated(job) ==
    \/ NameSuggestsPages(job.name)
    \/ \E u \in References(job), a \in Range(PagesActionOrder) : StartsWith(u.a, a)

\* The jobs of a document that are publish-related and declare permission q.
Declaring(cfg, q) ==
    {i \in DOMAIN JobsIn(cfg) :
        /\ PublishRelated(JobsIn(cfg)[i])
        /\ JobsIn(cfg)[i].cfg.perms.k = "map"
        /\ JobsIn(cfg)[i].cfg.perms.m[q] # "absent"}

\* The merged view: for each key the entry of the last publish-related job
\* that declares it, the workflow-level entry where no such job does.
ExpectedMerged(cfg) ==
    [q \in PermKeys |->
        IF Declaring(cfg, q) = {} THEN cfg.perms.m[q]
        ELSE JobsIn(cfg)[CHOOSE i \in Declaring(cfg, q) :
                            \A k \in Declaring(cfg, q) : k <= i].cfg.perms.m[q]]

PermissionsMet(m) ==
    \A q \in DOMAIN REQUIRED_PERMISSIONS : m[q] = REQUIRED_PERMISSIONS[q]

\* The results of the last call that carry the check name.
ResultsNamed(name) == SelectSeq(last.out.results, LAMBDA r : r.test_name = name)

\* The files of the directory whose parse check is PASS.
ParsedFiles == {f \in Range(FileNames) : files[f] # NoFile /\ ParseStatus(f) = PASS}

Verdict(r) == <<r.status, r.severity>>

\* C14: after a run, for every file that parses there is exactly one
\* workflow_permissions result; it is FAIL/HIGH exactly if a required key is
\* absent from the merged view or has another value than the required one, and
\* then its details name every absent key; otherwise it is PASS/LOW.
C14_PermissionsVerdict ==
    AfterRun
    => \A f \in ParsedFiles :
          /\ Len(ResultsNamed(<<"workflow_permissions", f, "">>)) = 1
          /\ \A r \in Range(ResultsNamed(<<"workflow_permissions", f, "">>)) :
                IF PermissionsMet(ExpectedMerged(Doc(files[f])))
                THEN Verdict(r) = <<PASS, LOW>>
                ELSE /\ Verdict(r) = <<FAIL, HIGH>>
                     /\ \A q \in DOMAIN REQUIRED_PERMISSIONS :
                           ExpectedMerged(Doc(files[f]))[q] = "absent"
                           => <<"missing", q, "">> \in Range(r.details)

\* C15: for every file that parses, the merged permission view the pass builds
\* holds for each key the entry of the last publish-related job declaring it
\* and the workflow-level entry otherwise, so that a job that is not
\* publish-related adds nothing; the verdict of the pass is that of this view.
C15_MergedView ==
    AfterRun
    => \A f \in ParsedFiles :
          /\ merged_permissions(Doc(files[f])).exc = ""
             => merged_permissions(Doc(files[f])).m = ExpectedMerged(Doc(files[f]))
          /\ \A r \in Range(ResultsNamed(<<"workflow_permissions", f, "">>)) :
                (r.status = PASS) <=> PermissionsMet(ExpectedMerged(Doc(files[f])))

\* The pass ran on a workflow whose publish job overrides one workflow-level
\* entry and keeps another, next to a job that is not publish-related and
\* declares permissions of its own.
C15_Witness ==
    /\ AfterRun
    /\ files["pages.yml"] = "otherjob"
    /\ Len(ResultsNamed(<<"workflow_permissions", "pages.yml", "">>)) = 1
    /\ \E i \in DOMAIN JobsIn(Doc("otherjob")) :
          /\ ~PublishRelated(JobsIn(Doc("otherjob"))[i])
          /\ JobsIn(Doc("otherjob"))[i].cfg.perms.k = "map"
    /\ Declaring(Doc("otherjob"), "pages") # {}
    /\ Declaring(Doc("otherjob"), "contents") = {}

\* The trigger declaration of a document: the one under the key on, or the one
\* under the boolean key when that is absent or empty.
Declared(cfg) ==
    IF cfg.on.k \in {"absent", "null"} \/ (cfg.on.k = "map" /\ cfg.on.names = <<>>)
    THEN cfg.onTrue ELSE cfg.on

TriggerNames(cfg) == Range(Declared(cfg).names)

\* The branches the push trigger is filtered to; a filter written as one
\* string names one branch.
BranchFilter(cfg) ==
    IF /\ Declared(cfg).k = "map"
       /\ Declared(cfg).push.k = "map"
       /\ Declared(cfg).push.branches.k \in {"list", "str"}
    THEN Range(Declared(cfg).push.branches.v) ELSE {}

PrimaryBranches == {"main", "prod", "master"}

\* The number of trigger rules a document violates.
ViolatedTriggerRules(cfg) ==
    (IF "push" \notin TriggerNames(cfg) THEN 1
     ELSE IF BranchFilter(cfg) # {} /\ BranchFilter(cfg) \cap PrimaryBranches = {}
          THEN 1 ELSE 0)
    + (IF "workflow_dispatch" \notin TriggerNames(cfg) THEN 1 ELSE 0)

\* C16: after a run, for every file that parses there is exactly one
\* workflow_triggers result; it is PASS/LOW exactly if a push trigger exists,
\* its branch filter is empty or holds one of main, prod, master, and a
\* workflow_dispatch trigger exists; otherwise it is FAIL/HIGH with one issue
\* per violated rule.
C16_TriggersVerdict ==
    AfterRun
    => \A f \in ParsedFiles :
          /\ Len(ResultsNamed(<<"workflow_triggers", f, "">>)) = 1
          /\ \A r \in Range(ResultsNamed(<<"workflow_triggers", f, "">>)) :
                IF ViolatedTriggerRules(Doc(files[f])) = 0
                THEN Verdict(r) = <<PASS, LOW>>
                ELSE /\ Verdict(r) = <<FAIL, HIGH>>
                     /\ Len(r.details) = ViolatedTriggerRules(Doc(files[f]))

\* The references of a job that carry a version tag.
Tagged(job) == {u \in References(job) : u.at}

Lacks(job, a) == \A u \in Tagged(job) : u.a # a

\* Some step uses an action of the table at a tag that orders before the
\* minimum of the table as a string.
BelowMinimum(job) ==
    \E u \in Tagged(job) :
        /\ u.a \in DOMAIN PAGES_ACTIONS
        /\ StrLess(u.ver, PAGES_ACTIONS[u.a].min_version)

\* C17: after a run, for every job of every file that parses there is exactly
\* one workflow_steps result; it is FAIL/HIGH if the job lacks actions/checkout
\* or actions/deploy-pages, WARNING/MEDIUM if it has both and uses an action of
\* the table at a tag below its minimum, PASS/LOW otherwise.
C17_StepsVerdict ==
    AfterRun
    => \A f \in ParsedFiles :
          \A i \in DOMAIN JobsIn(Doc(files[f])) :
             \E job \in {JobsIn(Doc(files[f]))[i]} :
                /\ Len(ResultsNamed(<<"workflow_steps", f, job.name>>)) = 1
                /\ \A r \in Range(ResultsNamed(<<"workflow_steps", f, job.name>>)) :
                      Verdict(r) =
                          IF Lacks(job, "actions/checkout")
                             \/ Lacks(job, "actions/deploy-pages")
                          THEN <<FAIL, HIGH>>
                          ELSE IF BelowMinimum(job) THEN <<WARNING, MEDIUM>>
                          ELSE <<PASS, LOW>>

PublishSteps == {"configure-pages", "upload-pages-artifact", "deploy-pages"}

Refers(job, s) == \E u \in References(job) : Contains(u.a, s)

\* The jobs of a document that reference one of the three publish steps.
PublishJobs(cfg) ==
    {job \in Range(JobsIn(cfg)) : \E s \in PublishSteps : Refers(job, s)}

\* For each publish job, each of the three steps it does not reference.
MissingPublishSteps(cfg) ==
    {<<"missing", job.name, s>> :
        <<job, s>> \in {x \in PublishJobs(cfg) \X PublishSteps : ~Refers(x[1], x[2])}}

\* C18: after a run, for every file that parses there is exactly one
\* pages_deployment result; it is FAIL/CRITICAL if no job references one of
\* the three publish steps, FAIL/HIGH if some job that references one lacks
\* another, with the missing steps listed per job, PASS/LOW otherwise.
C18_DeploymentVerdict ==
    AfterRun
    => \A f \in ParsedFiles :
          /\ Len(ResultsNamed(<<"pages_deployment", f, "">>)) = 1
          /\ \A r \in Range(ResultsNamed(<<"pages_deployment", f, "">>)) :
                IF PublishJobs(Doc(files[f])) = {}
                THEN Verdict(r) = <<FAIL, CRITICAL>>
                ELSE IF MissingPublishSteps(Doc(files[f])) # {}
                THEN /\ Verdict(r) = <<FAIL, HIGH>>
                     /\ Range(r.details) = MissingPublishSteps(Doc(files[f]))
                ELSE Verdict(r) = <<PASS, LOW>>

\* The files that parse and have a job with a deploy-pages step.
DeployingFiles ==
    {f \in ParsedFiles :
        \E job \in Range(JobsIn(Doc(files[f]))) : Refers(job, "deploy-pages")}

\* C19: the output of a run on an existing workflows directory holds exactly
\* one overall_workflow_assessment result, as its last result; it is
\* FAIL/CRITICAL if no file of the directory parses, otherwise FAIL/HIGH if no
\* file that parses has a job with a deploy-pages step, otherwise PASS/LOW.
C19_OverallAssessment ==
    (AfterRun /\ dirExists)
    => /\ Len(ResultsNamed(<<"overall_workflow_assessment", "", "">>)) = 1
       /\ last.out.results[Len(last.out.results)].test_name
              = <<"overall_workflow_assessment", "", "">>
       /\ Verdict(last.out.results[Len(last.out.results)]) =
              IF ParsedFiles = {} THEN <<FAIL, CRITICAL>>
              ELSE IF DeployingFiles = {} THEN <<FAIL, HIGH>>
              ELSE <<PASS, LOW>>

\* C20: the output of a run on an existing workflows directory without any
\* workflow file holds workflows_directory_exists with PASS,
\* workflow_files_found with FAIL/HIGH, and no parse or per-file result.
C20_NoFilesFound ==
    (AfterRun /\ dirExists /\ \A f \in Range(FileNames) : files[f] = NoFile)
    => /\ \E r \in Range(ResultsNamed(<<"workflows_directory_exists", "", "">>)) :
             r.status = PASS
       /\ Len(ResultsNamed(<<"workflow_files_found", "", "">>)) = 1
       /\ \A r \in Range(ResultsNamed(<<"workflow_files_found", "", "">>)) :
             Verdict(r) = <<FAIL, HIGH>>
       /\ \A r \in Range(last.out.results) :
             r.test_name[1] \notin PerFileChecks \cup {"parse_workflow"}

\* What the run_diagnostics of an execute call on wi1 in the current state
\* produces, read off the engine alone.
ThisCall ==
    inspector_run(dirExists, files,
                  [component["wi1"] EXCEPT !.start_time = TRUE, !.results = <<>>]).out

CountOf(rs, status) == Cardinality({i \in DOMAIN rs : rs[i].status = status})

\* C21: each execute call leaves in the component exactly the results the call
\* returned, all of them made by this call (what its run_diagnostics produced,
\* or the one failure result), whatever the component held before; get_summary
\* then counts these results; and nothing but execute changes them.
C21_ResultsOfLastExecute ==
    [][IF runs' # runs /\ last'.op = "execute"
       THEN /\ ~last'.out.raised
            /\ component'["wi1"].results = last'.out.results
            /\ \E out \in {ThisCall} :
                   last'.out.results =
                       IF out.raised
                       THEN <<execution_error_result("WorkflowInspector", out.exc)>>
                       ELSE out.results
            /\ \E s \in {get_summary("WorkflowInspector", component'["wi1"])} :
                   /\ s.total_results = Len(last'.out.results)
                   /\ s.pass_count = CountOf(last'.out.results, PASS)
                   /\ s.fail_count = CountOf(last'.out.results, FAIL)
                   /\ s.warning_count = CountOf(last'.out.results, WARNING)
                   /\ s.status = "completed"
       ELSE component'["wi1"].results = component["wi1"].results]_vars

\* The second call on the same instance, an execute on a directory that was
\* changed, failed: the component holds the one failure result.
C21_Witness ==
    /\ runs = 2
    /\ edits = 1
    /\ last.op = "execute"
    /\ component["wi1"].fault # ""
    /\ Len(component["wi1"].results) = 1
    /\ get_summary("WorkflowInspector", component["wi1"]).fail_count = 1

\* The components whose execute was invoked by the diagnostics run of the
\* current session: the turns of the run in progress or of the run that
\* completed the session, none while the session was not run.
ExecutedInSession ==
    IF pc = "running" \/ current_session.end_time # NoTime THEN Len(calls) ELSE 0

\* C22: while a session is active, get_session_summary reports as
\* components_executed the number of components whose execute was invoked
\* during the diagnostics run of the current session.
C22_ComponentsExecuted ==
    current_session # NoSession
    => get_session_summary.components_executed = ExecutedInSession

\* The configuration cannot be constructed or used: the setup errors.
SetupError == cli.config \in {"yamlerror", "scalar", "badlevel", "badformat"}

\* C23: when the command line process has exited, its status is 0 if a run
\* completed, and it is other than 0 only if a setup error occurred, for
\* diagnose, repair and validate.
C23_ExitStatus ==
    cli.pc = "exited"
    => /\ current_session.end_time # NoTime => cli.exit = 0
       /\ cli.exit # 0 => SetupError

\* (status, severity, details) of the one result of a check, or the exception.
VerdictOf(out) ==
    IF out.raised THEN <<"raised", out.exc>>
    ELSE <<out.results[1].status, out.results[1].severity, out.results[1].details>>

\* C24: for every set of trigger names, in any order, declared once under on
\* (written with or without quotes), the triggers check gives the same status,
\* severity and issues whether the names are written as one word, as a list,
\* or as a mapping with an empty configuration under each name.
C24_FormIndependent ==
    last.op = "validate_workflow_triggers"
    => /\ ~last.out.raised
       /\ Len(last.out.results) = 1
       /\ \A form \in Forms(arg.names) :
              VerdictOf(validate_workflow_triggers(
                            "pages.yml", TriggerDoc(arg.names, form, arg.key)))
                  = VerdictOf(last.out)
       /\ \A ns \in TriggerLists :
              Range(ns) = Range(arg.names)
              => VerdictOf(validate_workflow_triggers(
                               "pages.yml", TriggerDoc(ns, "list", arg.key)))
                     = VerdictOf(last.out)

\* The one word push, declared without quotes, was checked: FAIL for the
\* missing manual trigger.
C24_Witness ==
    /\ last.op = "validate_workflow_triggers"
    /\ arg.form = "str"
    /\ arg.names = <<"push">>
    /\ arg.key = "true"
    /\ VerdictOf(last.out) =
           <<FAIL, HIGH, <<<<"issue", "missing_workflow_dispatch", "">>>>>>

\* a orders before b character by character: at the first place where they
\* differ a has the smaller character, or a ends there and b goes on.
LexBefore(a, b) ==
    \E k \in 0..Len(a) :
        /\ k <= Len(b)
        /\ \A i \in 1..k : a[i] = b[i]
        /\ IF k = Len(a) THEN k < Len(b)
           ELSE k < Len(b) /\ Ord(a[k + 1]) < Ord(b[k + 1])

\* C25: the steps check reports an action of the table as outdated exactly if
\* the job uses it at a tag that orders before the minimum of the table
\* character by character; so v10 orders before v4, v3 and v2 and is reported.
C25_OutdatedIffLexicographicallySmaller ==
    last.op = "validate_workflow_steps"
    => /\ ~last.out.raised
       /\ Len(last.out.results) = 1
       /\ \A a \in Range(PagesActionOrder) :
              <<"outdated", a, "">> \in Range(last.out.results[1].details)
              <=> /\ arg.uses[a] # NotUsed
                  /\ LexBefore(arg.uses[a], PAGES_ACTIONS[a].min_version)
       /\ \A a \in Range(PagesActionOrder) :
              arg.uses[a] = V10
              => /\ LexBefore(V10, V4)
                 /\ <<"outdated", a, "">> \in Range(last.out.results[1].details)

\* A job with every action of the table, deploy-pages at v10: WARNING for the
\* one outdated action.
C25_Witness ==
    /\ last.op = "validate_workflow_steps"
    /\ arg.uses["actions/deploy-pages"] = V10
    /\ arg.uses["actions/checkout"] = V4
    /\ arg.uses["actions/configure-pages"] = V3
    /\ arg.uses["actions/upload-pages-artifact"] = V2
    /\ last.out.results[1].status = WARNING
    /\ last.out.results[1].details = <<<<"outdated", "actions/deploy-pages", "">>>>

\* The permissions results of the last call.
PermissionsResults ==
    SelectSeq(last.out.results, LAMBDA r : r.test_name[1] = "workflow_permissions")

\* C26: whenever the permissions check of some parsed file is PASS in a run,
\* get_workflow_summary read after the run gives has_required_permissions
\* true.
C26_SummaryWeakerThanVerdict ==
    (/\ AfterRun
     /\ ~last.out.raised
     /\ \E i \in DOMAIN PermissionsResults : PermissionsResults[i].status = PASS)
    => /\ get_workflow_summary(component["wi1"]).exc = ""
       /\ get_workflow_summary(component["wi1"]).has_required_permissions

\* C27: once run_diagnostics has set the end time of a session, no step
\* appends a result to that session or changes its end time, and
\* get_session_summary does not report completed while run_diagnostics is
\* executing components.
C27_FinalizedSessionFrozen ==
    /\ [](pc = "running" => get_session_summary.status # "completed")
    /\ [][(/\ current_session # NoSession
           /\ current_session.end_time # NoTime
           /\ current_session'.session_id = current_session.session_id)
          => /\ current_session'.diagnostic_results
                    = current_session.diagnostic_results
             /\ current_session'.end_time = current_session.end_time]_vars

\* The orders in which the jobs js can be declared.
Reorderings(js) ==
    {[i \in DOMAIN js |-> js[p[i]]] :
        p \in {q \in [DOMAIN js -> DOMAIN js] :
                  \A i, j \in DOMAIN js : i # j => q[i] # q[j]}}

\* C28: the permissions check of a workflow gives the same status and the same
\* missing and incorrect lists for every order in which its jobs are declared.
C28_JobOrderIndependent ==
    last.op = "validate_workflow_permissions"
    => \A js \in Reorderings(arg.jobs) :
           VerdictOf(validate_workflow_permissions("pages.yml", JobsDoc(js)))
               = VerdictOf(last.out)

\* Every result the state holds: those of the session, those the last direct
\* call returned and those each component keeps in self.results.
AllResults ==
    Range(current_session.diagnostic_results) \cup Range(last.out.results)
    \cup UNION {Range(component[c].results) : c \in Comps}

\* C29: in every result of the engine, of execute and of the orchestrator the
\* status is PASS, WARNING or FAIL; a PASS result has severity LOW, a WARNING
\* result severity MEDIUM, a FAIL result severity MEDIUM, HIGH or CRITICAL.
C29_StatusSeverityConsistent ==
    \A r \in AllResults :
        /\ r.status \in {PASS, WARNING, FAIL}
        /\ r.status = PASS => r.severity = LOW
        /\ r.status = WARNING => r.severity = MEDIUM
        /\ r.status = FAIL => r.severity \in {MEDIUM, HIGH, CRITICAL}

\* A session holds a PASS result, a WARNING result of the steps check, a FAIL
\* result of the engine and the FAIL result made of an exception.
C29_Witness ==
    /\ pc = "idle"
    /\ \E r \in Range(current_session.diagnostic_results) :
           r.status = PASS /\ r.severity = LOW
    /\ \E r \in Range(current_session.diagnostic_results) :
           /\ r.test_name[1] = "workflow_steps"
           /\ r.status = WARNING /\ r.severity = MEDIUM
    /\ \E r \in Range(current_session.diagnostic_results) :
           r.test_name[1] # "execution" /\ r.status = FAIL
    /\ \E r \in Range(current_session.diagnostic_results) :
           r.test_name[1] = "execution" /\ r.status = FAIL /\ r.severity = HIGH

\* C30: _execute_with_retry with retry count r >= 0 invokes the operation at
\* most r+1 times; an invocation that succeeds is the last one and its result
\* is returned; when r+1 invocations failed the call raises the exception of
\* the last of them.
C30_RetryBounded ==
    retry.pc # "none"
    => /\ Len(retry.invocations) <= retry.retries + 1
       /\ \A i \in DOMAIN retry.invocations :
              retry.invocations[i] = "ok"
              => /\ i = Len(retry.invocations)
                 /\ retry.pc = "returned"
                 /\ retry.result = i
       /\ retry.pc = "returned"
              => /\ retry.invocations # <<>>
                 /\ retry.invocations[Len(retry.invocations)] = "ok"
       /\ (/\ Len(retry.invocations) = retry.retries + 1
           /\ \A i \in DOMAIN retry.invocations : retry.invocations[i] # "ok")
              => /\ retry.pc = "raised"
                 /\ retry.exc = retry.invocations[Len(retry.invocations)]

\* With two retries the operation failed twice and then succeeded.
C30_Witness ==
    /\ retry.pc = "returned"
    /\ retry.retries = 2
    /\ retry.invocations = <<"ConnectionError", "TimeoutError", "ok">>
    /\ retry.result = 3

\* With one retry both invocations failed, with different exceptions, and the
\* call raised the second.
C30_WitnessAllFail ==
    /\ retry.pc = "raised"
    /\ retry.retries = 1
    /\ retry.invocations = <<"ConnectionError", "TimeoutError">>
    /\ retry.exc = "TimeoutError"

====
